---- MODULE Spec2Model ----
(***************************************************************************)
(* Verification model of Sherpa-OS' prompt core: PromptManager             *)
(* (utils/prompts.ts), the parts of ContextManager (utils/context.ts) it   *)
(* reads, and the file helpers of utils/fs.ts.                             *)
(*                                                                         *)
(* Text is a sequence of tokens.  A token is one character ("F", " "), a   *)
(* run of literal template text ("# Bug Fix Task"), or one of the lexemes  *)
(* "{{" and "}}"; a placeholder {{NAME}} is the three tokens               *)
(* "{{", "NAME", "}}".                                                     *)
(***************************************************************************)
EXTENDS Integers, Sequences, FiniteSets, TLC

\* ------------------------------------------------------------------ bounds
MaxClock == 1
MaxCompile == 1
MaxGen == 2
MaxRec == 2
MaxUses == 6
MaxDeps == 2
MaxSessionCalls == 3

\* ------------------------------------------------------------- text helpers
Upper == <<"A","B","C","D","E","F","G","H","I","J","K","L","M",
           "N","O","P","Q","R","S","T","U","V","W","X","Y","Z">>
LowerOf == <<"a","b","c","d","e","f","g","h","i","j","k","l","m",
             "n","o","p","q","r","s","t","u","v","w","x","y","z">>

LowerCase == [c \in {Upper[k] : k \in DOMAIN Upper} |->
                LowerOf[CHOOSE k \in DOMAIN Upper : Upper[k] = c]]

\* String.prototype.toLowerCase, token by token
toLowerCase(text) ==
  [i \in DOMAIN text |->
     IF text[i] \in DOMAIN LowerCase THEN LowerCase[text[i]] ELSE text[i]]

\* String.prototype.includes
includes(text, sub) ==
  \E i \in 0..(Len(text) - Len(sub)) : SubSeq(text, i + 1, i + Len(sub)) = sub

RECURSIVE Flatten(_)
Flatten(ss) == IF ss = <<>> THEN <<>> ELSE Head(ss) \o Flatten(Tail(ss))

\* Array.prototype.join
RECURSIVE join(_, _)
join(ss, sep) ==
  IF ss = <<>> THEN <<>>
  ELSE IF Len(ss) = 1 THEN ss[1]
  ELSE ss[1] \o sep \o join(Tail(ss), sep)

\* items.map(x => `${prefix}${x}`)
mapPrefix(prefix, items) == [i \in DOMAIN items |-> prefix \o items[i]]

NL == <<"\n">>
PH(v) == <<"{{", v, "}}">>

\* a text still holds a {{...}} token
HasPlaceholder(text) ==
  \E i \in 1..(Len(text) - 2) : text[i] = "{{" /\ text[i + 2] = "}}"

\* --------------------------------------------------------------- templates
SeedIds == <<"feature-implementation", "bug-fix", "refactor">>
CustomFile == "hotfix"
TemplateFiles == {SeedIds[i] : i \in DOMAIN SeedIds} \cup {CustomFile}

FeatureBody ==
  <<"# Feature Implementation Task">> \o PH("CONTEXT_SUMMARY")
  \o <<"## Development Standards">> \o PH("DEVELOPMENT_STANDARDS")
  \o <<"## Tech Stack">> \o PH("TECH_STACK")
  \o <<"## Testing Standards">> \o PH("TESTING_STANDARDS")
  \o <<"## Patterns to Follow">> \o PH("CODE_PATTERNS")
  \o <<"## Architectural Constraints">> \o PH("ARCHITECTURAL_DECISIONS")
  \o <<"**Feature**: ">> \o PH("FEATURE_NAME")
  \o <<"**Outcome**: ">> \o PH("EXPECTED_OUTCOME")
  \o <<"**Acceptance Criteria**:">> \o PH("ACCEPTANCE_CRITERIA")
  \o <<"**API Changes**:">> \o PH("API_DIFF")
  \o <<"**UI Components**:">> \o PH("UI_COMPONENTS")
  \o <<"## Test Requirements">> \o PH("TEST_PLAN")
  \o <<"## Files to Reference">> \o PH("RELEVANT_FILES")
  \o <<"## Common Pitfalls to Avoid">> \o PH("PITFALLS")
  \o <<"## AI-Specific Guidelines">>

BugFixBody ==
  <<"# Bug Fix Task">> \o PH("CONTEXT_SUMMARY")
  \o <<"## Current Patterns">> \o PH("CODE_PATTERNS")
  \o <<"**Issue**: ">> \o PH("BUG_DESCRIPTION")
  \o <<"**Expected**: ">> \o PH("EXPECTED_BEHAVIOR")
  \o <<"**Actual**: ">> \o PH("ACTUAL_BEHAVIOR")
  \o <<"**Steps to Reproduce**: ">> \o PH("REPRODUCTION_STEPS")
  \o <<"## Files Involved">> \o PH("RELEVANT_FILES")
  \o <<"## Test Strategy">> \o PH("TEST_PLAN")
  \o <<"## Avoid These Common Mistakes">> \o PH("PITFALLS")

RefactorBody ==
  <<"# Refactoring Task">> \o PH("CONTEXT_SUMMARY")
  \o <<"## Current Patterns">> \o PH("CODE_PATTERNS")
  \o <<"**Target**: ">> \o PH("REFACTOR_TARGET")
  \o <<"**Reason**: ">> \o PH("REFACTOR_REASON")
  \o <<"**Success Criteria**: ">> \o PH("SUCCESS_CRITERIA")
  \o <<"## Architectural Decisions to Respect">> \o PH("ARCHITECTURAL_DECISIONS")
  \o <<"## Files to Modify">> \o PH("RELEVANT_FILES")
  \o <<"## Common Refactoring Pitfalls">> \o PH("PITFALLS")

getDefaultTemplates ==
  << [id |-> "feature-implementation", name |-> "Feature Implementation",
      category |-> "feature", template |-> FeatureBody],
     [id |-> "bug-fix", name |-> "Bug Fix",
      category |-> "bugfix", template |-> BugFixBody],
     [id |-> "refactor", name |-> "Code Refactoring",
      category |-> "refactor", template |-> RefactorBody] >>

\* template files a user may have put in the store before the program runs
UserTemplates(file) ==
  IF file = "feature-implementation"
  THEN {[id |-> "feature-implementation", name |-> "Custom Feature Template",
         category |-> "feature",
         template |-> <<"Custom template content ">> \o PH("CUSTOM_VAR")]}
  ELSE IF file = CustomFile
  THEN {[id |-> "hotfix", name |-> "Hotfix",
         category |-> "bugfix",
         template |-> <<"# Hotfix ">> \o PH("FEATURE_NAME")]}
  ELSE {}

\* ----------------------------------------------------------------- tickets
TFix == <<"F","i","x"," ","l","o","g","i","n"," ","b","u","g">>
TAdd == <<"A","d","d"," ","s","e","a","r","c","h">>
TRefBug == <<"R","E","F","A","C","T","O","R"," ","d","e","b","u","g">>
TRef == <<"R","e","f","a","c","t","o","r"," ","a","u","t","h">>
TTune == <<"T","u","n","e"," ","d","b">>
OLog == <<"U","s","e","r","s"," ","l","o","g"," ","i","n">>
OImproveLow == <<"W","e"," ","i","m","p","r","o","v","e"," ","i","t">>
OImproveCap == <<"I","m","p","r","o","v","e"," ","s","p","e","e","d">>
\* an optional field: absent, or present with a value
None == [present |-> FALSE, v |-> <<>>]
Some(x) == [present |-> TRUE, v |-> x]

\* Ticket records (types/index.ts); apidiff and ui_components are optional
Tickets ==
  { [ticket_id |-> "T-1", title |-> TFix, outcome |-> OLog,
     acceptance_criteria |-> << <<"Bug resolved">> >>,
     apidiff |-> None, ui_components |-> None,
     test_plan |-> [unit |-> <<>>, e2e |-> <<>>]],
    [ticket_id |-> "T-2", title |-> TAdd, outcome |-> OLog,
     acceptance_criteria |-> << <<"All variables replaced">>, <<"Content is correct">> >>,
     apidiff |-> Some(<< <<"/api/test">> >>),
     ui_components |-> Some(<< <<"TestComponent">> >>),
     test_plan |-> [unit |-> << <<"unit test">> >>, e2e |-> << <<"e2e test">> >>]],
    [ticket_id |-> "T-3", title |-> TAdd, outcome |-> OImproveCap,
     acceptance_criteria |-> <<>>,
     apidiff |-> Some(<<>>), ui_components |-> None,
     test_plan |-> [unit |-> <<>>, e2e |-> <<>>]],
    [ticket_id |-> "T-4", title |-> TRefBug, outcome |-> OLog,
     acceptance_criteria |-> << <<"Code improved">> >>,
     apidiff |-> None, ui_components |-> None,
     test_plan |-> [unit |-> <<>>, e2e |-> <<>>]],
    [ticket_id |-> "T-5", title |-> TTune, outcome |-> OImproveLow,
     acceptance_criteria |-> << <<"Faster">> >>,
     apidiff |-> None, ui_components |-> None,
     test_plan |-> [unit |-> <<>>, e2e |-> <<>>]],
    [ticket_id |-> "T-6", title |-> TRef, outcome |-> OLog,
     acceptance_criteria |-> << <<"Cleaner">> >>,
     apidiff |-> None, ui_components |-> None,
     test_plan |-> [unit |-> <<>>, e2e |-> <<>>]] }

\* ------------------------------------------------------- template selection
\* templates.find(t => t.category === cat): index of the first hit, 0 if none
find(templates, cat) ==
  LET hits == {i \in DOMAIN templates : templates[i].category = cat}
  IN IF hits = {} THEN 0 ELSE CHOOSE i \in hits : \A j \in hits : i <= j

\* selectBestTemplate over the list getTemplates returned: the index of the
\* template it returns, 0 when it throws 'No prompt template found'
selectBestTemplate(templates, ticket) ==
  LET title == toLowerCase(ticket.title)
      bug == find(templates, "bugfix")
      ref == find(templates, "refactor")
      feat == find(templates, "feature")
  IN IF (includes(title, <<"f","i","x">>) \/ includes(title, <<"b","u","g">>))
        /\ bug # 0
     THEN bug
     ELSE IF (includes(title, <<"r","e","f","a","c","t","o","r">>)
              \/ includes(ticket.outcome, <<"i","m","p","r","o","v","e">>))
             /\ ref # 0
     THEN ref
     ELSE feat

\* the two tests of selectBestTemplate on a ticket
matchesBugfix(ticket) ==
  LET title == toLowerCase(ticket.title)
  IN includes(title, <<"f","i","x">>) \/ includes(title, <<"b","u","g">>)
matchesRefactor(ticket) ==
  LET title == toLowerCase(ticket.title)
  IN includes(title, <<"r","e","f","a","c","t","o","r">>)
     \/ includes(ticket.outcome, <<"i","m","p","r","o","v","e">>)

\* ------------------------------------------------------------ context build
Digits == <<"0","1","2","3","4","5","6","7","8","9">>
\* `${n}` for the small numbers that occur
Str(n) == IF n < 10 THEN Digits[n + 1] ELSE "many"

\* A declaration met by traverse(): kind is "function", "class" or "import";
\* n is params.length / the number of kind==='method' members /
\* specifiers.length; flag is node.async / unused / isRelative; extra is
\* hasTypeAnnotations / hasConstructor / hasDefaultImport; name is the
\* identifier (or the import source); named is node.id being present.
Decl(kind, named, n, flag, extra, name) ==
  [kind |-> kind, named |-> named, n |-> n, flag |-> flag, extra |-> extra,
   name |-> name]

\* Map.get / Map.set on the pattern registry, kept in insertion order
indexOfId(patterns, id) ==
  LET hits == {i \in DOMAIN patterns : patterns[i].id = id}
  IN IF hits = {} THEN 0 ELSE CHOOSE i \in hits : TRUE

\* an update of an existing entry that counts the occurrence without its file
bumpCounting(patterns, i, file, now) ==
  [patterns EXCEPT ![i] = [@ EXCEPT !.frequency = @ + 1, !.lastSeen = now]]

bump(patterns, i, file, now) ==
  [patterns EXCEPT ![i] = [@ EXCEPT !.frequency = @ + 1,
                                    !.files = Append(@, file),
                                    !.lastSeen = now]]

extractFunctionPattern(patterns, d, file, now) ==
  IF ~d.named THEN patterns
  ELSE LET patternId == <<"function-", Str(d.n), "-params-",
                          IF d.flag THEN "async" ELSE "sync">>
           i == indexOfId(patterns, patternId)
       IN IF i # 0 THEN bump(patterns, i, file, now)
          ELSE Append(patterns,
                 [id |-> patternId,
                  name |-> <<IF d.flag THEN "Async" ELSE "Sync",
                             " function with ", Str(d.n), " parameters">>,
                  description |-> <<"Functions with ", Str(d.n), " parameters, ",
                                    IF d.extra THEN "with" ELSE "without",
                                    " type annotations">>,
                  example |-> <<"function ", d.name, "(", Str(d.n), ") { ... }">>,
                  frequency |-> 1, files |-> <<file>>, lastSeen |-> now])

extractClassPattern(patterns, d, file, now) ==
  IF ~d.named THEN patterns
  ELSE LET patternId == <<"class-", Str(d.n), "-methods">>
           i == indexOfId(patterns, patternId)
       IN IF i # 0 THEN bump(patterns, i, file, now)
          ELSE Append(patterns,
                 [id |-> patternId,
                  name |-> <<"Class with ", Str(d.n), " methods">>,
                  description |-> <<"Classes with ", Str(d.n), " methods, ",
                                    IF d.extra THEN "with" ELSE "without",
                                    " constructor">>,
                  example |-> <<"class ", d.name, " { ... }">>,
                  frequency |-> 1, files |-> <<file>>, lastSeen |-> now])

extractImportPattern(patterns, d, file, now) ==
  LET patternId == <<"import-", IF d.flag THEN "relative" ELSE "package",
                     "-", Str(d.n)>>
      i == indexOfId(patterns, patternId)
  IN IF i # 0 THEN bump(patterns, i, file, now)
     ELSE Append(patterns,
            [id |-> patternId,
             name |-> <<IF d.flag THEN "Relative" ELSE "Package",
                        " import with ", Str(d.n), " specifiers">>,
             description |-> <<"Import from ",
                               IF d.flag THEN "relative path" ELSE "npm package",
                               " with ", Str(d.n), " specifiers, ",
                               IF d.extra THEN "with" ELSE "without",
                               " default import">>,
             example |-> <<"import { ... } from '", d.name, "';">>,
             frequency |-> 1, files |-> <<file>>, lastSeen |-> now])

\* traverse(ast, {...}) over the declarations of one parsed file
RECURSIVE traverse(_, _, _, _)
traverse(patterns, decls, file, now) ==
  IF decls = <<>> THEN patterns
  ELSE LET d == Head(decls)
           next == IF d.kind = "function"
                     THEN extractFunctionPattern(patterns, d, file, now)
                   ELSE IF d.kind = "class"
                     THEN extractClassPattern(patterns, d, file, now)
                   ELSE extractImportPattern(patterns, d, file, now)
       IN traverse(next, Tail(decls), file, now)

\* an extraction that keeps what it met in a file before the syntax error
RECURSIVE extractPatternsPartial(_, _, _)
extractPatternsPartial(patterns, files, now) ==
  IF files = <<>> THEN patterns
  ELSE LET f == Head(files)
       IN extractPatternsPartial(traverse(patterns, f.decls, f.path, now),
                                 Tail(files), now)

\* extractPatterns: a file that does not parse is skipped
RECURSIVE extractPatterns(_, _, _)
extractPatterns(patterns, files, now) ==
  IF files = <<>> THEN patterns
  ELSE LET f == Head(files)
       IN extractPatterns(IF f.parses
                            THEN traverse(patterns, f.decls, f.path, now)
                            ELSE patterns,
                          Tail(files), now)

\* parseArchitecturalDecision: first '# ' heading as title, else the file name
parseArchitecturalDecision(doc, now) ==
  [id |-> doc.stem,
   title |-> IF doc.heading.present /\ doc.heading.v # <<>>
               THEN doc.heading.v ELSE <<doc.stem, ".md">>,
   decision |-> doc.content \o <<"...">>,
   rationale |-> <<"Extracted from documentation">>,
   date |-> now]

\* extractImplicitDecisions over package.json (present and well-formed)
extractImplicitDecisions(manifest, now) ==
  (IF manifest.state = "ok" /\ \E i \in DOMAIN manifest.deps : manifest.deps[i] = "react"
   THEN << [id |-> "tech-stack-react", title |-> <<"Use React for UI">>,
            decision |-> <<"Chosen React as the UI framework">>,
            rationale |-> <<"React provides component-based architecture and strong ecosystem">>,
            date |-> now] >>
   ELSE <<>>)
  \o
  (IF manifest.state = "ok"
      /\ \E i \in DOMAIN manifest.devDeps : manifest.devDeps[i] = "typescript"
   THEN << [id |-> "tech-stack-typescript", title |-> <<"Use TypeScript">>,
            decision |-> <<"Chosen TypeScript for type safety">>,
            rationale |-> <<"TypeScript provides static type checking and better IDE support">>,
            date |-> now] >>
   ELSE <<>>)

\* extractDecisions: decision documents first, then the implicit ones
extractDecisions(project, now) ==
  [i \in DOMAIN project.adrs |-> parseArchitecturalDecision(project.adrs[i], now)]
  \o extractImplicitDecisions(project.manifest, now)

loadPitfalls ==
  << [id |-> "over-abstraction",
      pattern |-> <<"Creating interfaces for single implementations">>,
      description |-> <<"AI tends to create unnecessary abstractions">>,
      solution |-> <<"Start concrete, abstract when you have 2+ implementations">>],
     [id |-> "missing-error-handling",
      pattern |-> <<"Functions without proper error handling">>,
      description |-> <<"AI often skips comprehensive error handling">>,
      solution |-> <<"Always handle edge cases and provide meaningful error messages">>] >>

\* patterns.sort((a, b) => b.frequency - a.frequency): stable, descending
RECURSIVE sortByFrequency(_)
sortByFrequency(ps) ==
  IF ps = <<>> THEN <<>>
  ELSE LET m == CHOOSE i \in DOMAIN ps :
                  /\ \A j \in DOMAIN ps : ps[j].frequency <= ps[i].frequency
                  /\ \A j \in 1..(i - 1) : ps[j].frequency < ps[i].frequency
       IN <<ps[m]>> \o sortByFrequency([k \in 1..(Len(ps) - 1) |->
                                          IF k < m THEN ps[k] ELSE ps[k + 1]])

firstN(seq, n) == SubSeq(seq, 1, IF Len(seq) < n THEN Len(seq) ELSE n)

\* generateSummary over the (already sorted) patterns and the decisions
generateSummary(patterns, decisions) ==
  <<"This codebase primarily uses: ">>
  \o join([i \in DOMAIN firstN(patterns, 5) |->
             patterns[i].name \o <<" (used ", Str(patterns[i].frequency), " times)">>],
          <<", ">>)
  \o <<". Key architectural decisions: ">>
  \o join([i \in DOMAIN firstN(decisions, 3) |-> decisions[i].title], <<", ">>)
  \o <<". Watch out for common pitfalls in AI-generated code.">>

\* a listing of the names in declaration order
sortNamesUnsorted(names) == names

\* Object.keys(...).sort(): the names in string order
DepOrder == <<"a", "a,b", "b", "express", "react", "typescript", "vitest">>
sortNames(names) ==
  LET present == {k \in DOMAIN DepOrder : \E i \in DOMAIN names : names[i] = DepOrder[k]}
      rank(k) == Cardinality({j \in present : j <= k})
  IN [r \in 1..Cardinality(present) |->
        DepOrder[CHOOSE k \in present : rank(k) = r]]

\* the characters of a dependency name, where the name holds a separator
NameChars(name) == IF name = "a,b" THEN <<"a", ",", "b">> ELSE <<name>>

\* `${deps.join(',')}|${devDeps.join(',')}`, or 'unknown' without a manifest
generateCodebaseFingerprint(manifest) ==
  IF manifest.state = "absent" THEN <<"unknown">>
  ELSE join([i \in DOMAIN sortNames(manifest.deps) |->
               NameChars(sortNames(manifest.deps)[i])], <<",">>)
       \o <<"|">>
       \o join([i \in DOMAIN sortNames(manifest.devDeps) |->
                  NameChars(sortNames(manifest.devDeps)[i])], <<",">>)

\* a build that stamps the fingerprint with the time of the build
buildContextStamped(project, now) ==
  LET patterns == sortByFrequency(extractPatterns(<<>>, project.files, now))
      decisions == extractDecisions(project, now)
  IN [patterns |-> patterns,
      decisions |-> decisions,
      pitfalls |-> loadPitfalls,
      summary |-> generateSummary(patterns, decisions),
      lastUpdated |-> now,
      codebaseFingerprint |-> generateCodebaseFingerprint(project.manifest)
                              \o <<"@", Str(now)>>]

\* the CompressedContext buildContext assembles and writes
buildContext(project, now) ==
  LET patterns == sortByFrequency(extractPatterns(<<>>, project.files, now))
      decisions == extractDecisions(project, now)
  IN [patterns |-> patterns,
      decisions |-> decisions,
      pitfalls |-> loadPitfalls,
      summary |-> generateSummary(patterns, decisions),
      lastUpdated |-> now,
      codebaseFingerprint |-> generateCodebaseFingerprint(project.manifest)]

\* project trees handed to buildContext
Projects ==
  { [files |-> << [path |-> "src/a.ts", parses |-> TRUE,
                   decls |-> << Decl("function", TRUE, 2, FALSE, TRUE, "login"),
                                Decl("import", FALSE, 1, TRUE, FALSE, "./b"),
                                Decl("function", TRUE, 2, FALSE, FALSE, "logout") >>],
                  [path |-> "src/b.ts", parses |-> FALSE,
                   decls |-> << Decl("function", TRUE, 0, FALSE, FALSE, "broken") >>] >>,
     adrs |-> << [stem |-> "0001-auth", heading |-> Some(<<"Use sessions">>),
                  content |-> <<"# Use sessions">>] >>,
     manifest |-> [state |-> "ok", deps |-> <<"react", "express">>,
                   devDeps |-> <<"typescript">>]],
    [files |-> << [path |-> "lib/x.js", parses |-> TRUE,
                   decls |-> << Decl("function", TRUE, 1, TRUE, FALSE, "fetchAll"),
                                Decl("class", TRUE, 1, FALSE, TRUE, "Store") >>] >>,
     adrs |-> <<>>,
     manifest |-> [state |-> "absent", deps |-> <<>>, devDeps |-> <<>>]],
    [files |-> <<>>,
     adrs |-> <<>>,
     manifest |-> [state |-> "absent", deps |-> <<>>, devDeps |-> <<>>]],
    [files |-> <<>>,
     adrs |-> <<>>,
     manifest |-> [state |-> "malformed", deps |-> <<>>, devDeps |-> <<>>]] }

\* project trees for the context store: src/b.ts does not parse; the second
\* declaration of src/c.ts is `export default function (a, b) {}`
FileA ==
  [path |-> "src/a.ts", parses |-> TRUE,
   decls |-> << Decl("function", TRUE, 2, FALSE, TRUE, "login"),
                Decl("import", FALSE, 1, TRUE, FALSE, "./b"),
                Decl("function", TRUE, 2, FALSE, FALSE, "logout") >>]
FileB ==
  [path |-> "src/b.ts", parses |-> FALSE,
   decls |-> << Decl("function", TRUE, 2, FALSE, FALSE, "broken") >>]
FileC ==
  [path |-> "src/c.ts", parses |-> TRUE,
   decls |-> << Decl("function", TRUE, 2, FALSE, FALSE, "save"),
                Decl("function", FALSE, 2, FALSE, FALSE, ""),
                Decl("class", TRUE, 1, FALSE, TRUE, "Store"),
                Decl("function", TRUE, 1, TRUE, FALSE, "fetchAll") >>]
ContextProjects ==
  { [files |-> <<FileA, FileB, FileC>>,
     adrs |-> << [stem |-> "0001-auth", heading |-> Some(<<"Use sessions">>),
                  content |-> <<"# Use sessions">>] >>,
     manifest |-> [state |-> "ok", deps |-> <<"react", "express">>,
                   devDeps |-> <<"typescript">>]],
    [files |-> <<FileC, FileA>>,
     adrs |-> <<>>,
     manifest |-> [state |-> "ok", deps |-> <<"express", "react">>,
                   devDeps |-> <<"typescript">>]],
    [files |-> <<FileA, FileC>>,
     adrs |-> <<>>,
     manifest |-> [state |-> "absent", deps |-> <<>>, devDeps |-> <<>>]],
    [files |-> <<FileA>>,
     adrs |-> <<>>,
     manifest |-> [state |-> "malformed", deps |-> <<>>, devDeps |-> <<>>]] }

\* ------------------------------------------------------------ prompt filling
\* content.replace(new RegExp(`{{${variable}}}`, 'g'), value) from token i
\* on: every occurrence, left to right; the inserted text is not rescanned.
\* (No value of the model holds a "$", so no replacement pattern applies.)
RECURSIVE replaceFrom(_, _, _, _)
replaceFrom(content, i, variable, value) ==
  LET hits == {j \in i..(Len(content) - 2) :
                 /\ content[j] = "{{"
                 /\ content[j + 1] = variable
                 /\ content[j + 2] = "}}"}
  IN IF hits = {} THEN SubSeq(content, i, Len(content))
     ELSE LET j == CHOOSE h \in hits : \A g \in hits : h <= g
          IN SubSeq(content, i, j - 1) \o value
             \o replaceFrom(content, j + 3, variable, value)

formatPatterns(patterns) ==
  join([i \in DOMAIN firstN(patterns, 5) |->
          <<"### ">> \o patterns[i].name
          \o <<"\n- Used ", Str(patterns[i].frequency), "x across ",
               Str(Len(patterns[i].files)), " files\n- ">>
          \o patterns[i].description \o <<"\n- Example: ">>
          \o patterns[i].example],
       <<"\n\n">>)

formatDecisions(decisions) ==
  join([i \in DOMAIN decisions |->
          <<"### ">> \o decisions[i].title \o <<"\n- **Decision**: ">>
          \o decisions[i].decision \o <<"\n- **Rationale**: ">>
          \o decisions[i].rationale],
       <<"\n\n">>)

formatTestPlan(testPlan) ==
  join(mapPrefix(<<"- **Unit**: ">>, testPlan.unit), NL)
  \o NL
  \o join(mapPrefix(<<"- **E2E**: ">>, testPlan.e2e), NL)

\* flatMap(p => p.files) without the repeats, first occurrence kept
getRelevantFiles(patterns) ==
  LET all == Flatten([i \in DOMAIN patterns |-> patterns[i].files])
      keep == {i \in DOMAIN all : \A j \in 1..(i - 1) : all[j] # all[i]}
      rank(i) == Cardinality({j \in keep : j <= i})
      files == [r \in 1..Cardinality(keep) |-> all[CHOOSE i \in keep : rank(i) = r]]
  IN join([i \in DOMAIN firstN(files, 10) |-> <<"- ", files[i]>>], NL)

formatPitfalls(pitfalls) ==
  join([i \in DOMAIN pitfalls |->
          <<"### ">> \o pitfalls[i].pattern \o <<"\n- **Problem**: ">>
          \o pitfalls[i].description \o <<"\n- **Solution**: ">>
          \o pitfalls[i].solution],
       <<"\n\n">>)

\* x || fallback on a string
orElse(x, fallback) == IF x = <<>> THEN fallback ELSE x

\* opt?.map(x => `- ${x}`).join('\n') || 'None specified'
optList(opt) ==
  IF opt.present THEN orElse(join(mapPrefix(<<"- ">>, opt.v), NL), <<"None specified">>)
  ELSE <<"None specified">>

\* the replacements record of fillTemplate, in insertion order
replacements(ticket, context, relevant, standards) ==
  << <<"CONTEXT_SUMMARY", context.summary>>,
     <<"CODE_PATTERNS", formatPatterns(relevant.patterns)>>,
     <<"ARCHITECTURAL_DECISIONS", formatDecisions(relevant.decisions)>>,
     <<"DEVELOPMENT_STANDARDS", orElse(standards.coding, <<"No coding standards found">>)>>,
     <<"TESTING_STANDARDS", orElse(standards.testing, <<"No testing standards found">>)>>,
     <<"TECH_STACK", orElse(standards.techstack, <<"No tech stack documented">>)>>,
     <<"FEATURE_NAME", ticket.title>>,
     <<"EXPECTED_OUTCOME", ticket.outcome>>,
     <<"ACCEPTANCE_CRITERIA", join(mapPrefix(<<"- ">>, ticket.acceptance_criteria), NL)>>,
     <<"API_DIFF", optList(ticket.apidiff)>>,
     <<"UI_COMPONENTS", optList(ticket.ui_components)>>,
     <<"TEST_PLAN", formatTestPlan(ticket.test_plan)>>,
     <<"RELEVANT_FILES", getRelevantFiles(relevant.patterns)>>,
     <<"PITFALLS", formatPitfalls(context.pitfalls)>>,
     <<"BUG_DESCRIPTION", ticket.outcome>>,
     <<"EXPECTED_BEHAVIOR", <<"As described in acceptance criteria">> >>,
     <<"ACTUAL_BEHAVIOR", <<"Current behavior differs from expected">> >>,
     <<"REPRODUCTION_STEPS", <<"Steps to reproduce the issue">> >>,
     <<"REFACTOR_TARGET", ticket.title>>,
     <<"REFACTOR_REASON", ticket.outcome>>,
     <<"SUCCESS_CRITERIA", join(ticket.acceptance_criteria, <<", ">>)>> >>

NotSpecified == <<"Not specified">>

\* the loop over Object.entries(replacements)
RECURSIVE replaceAll(_, _, _)
replaceAll(content, reps, k) ==
  IF k > Len(reps) THEN content
  ELSE replaceAll(replaceFrom(content, 1, reps[k][1], orElse(reps[k][2], NotSpecified)),
                  reps, k + 1)

fillTemplate(template, ticket, context, relevant, standards) ==
  replaceAll(template.template, replacements(ticket, context, relevant, standards), 1)

\* loadStandards over the files of .sherpa/standards
loadStandards(files) ==
  LET modular == (IF files.best.present THEN files.best.v \o <<"\n\n">> ELSE <<>>)
                 \o (IF files.style.present THEN files.style.v \o <<"\n\n">> ELSE <<>>)
      codingContent == IF modular # <<>> THEN modular
                       ELSE IF files.coding.present THEN files.coding.v ELSE <<>>
  IN [coding |-> orElse(codingContent,
                        <<"No coding standards found. Run sherpa add:standard to create.">>),
      testing |-> IF files.testing.present THEN files.testing.v
                  ELSE <<"No testing standards found. Run sherpa add:standard --type testing to create.">>,
      techstack |-> IF files.techstack.present THEN files.techstack.v
                    ELSE <<"No tech stack documented. Run sherpa add:standard --type techstack to create.">>]

StandardsDirs ==
  { [best |-> None, style |-> None, coding |-> None, testing |-> None, techstack |-> None],
    [best |-> Some(<<"# Development Standards">>), style |-> None, coding |-> None,
     testing |-> Some(<<"# Testing Standards">>), techstack |-> Some(<<>>)] }

\* ------------------------------------------------------------------- state
VARIABLES
  templatesDir,   \* .sherpa/prompts/templates exists
  templates,      \* template file name -> optional PromptTemplate
  standards,      \* the files of .sherpa/standards
  compressed,     \* optional content of context/compressed.json
  versions,       \* version id -> PromptVersion, one per file of versions/
  performance,    \* optional content of prompts/performance.json
  clock,          \* Date.now()
  lastOp,         \* the call that ran last and its result
  hist,           \* history of the calls made, read by the properties only
  projections,    \* optional content of context/patterns.md and decisions.md
  sessions,       \* sessions/current.json, sessions/history and handoffs
  inflight        \* the calls suspended at an await, with their locals

vars == <<templatesDir, templates, standards, compressed, versions,
          performance, clock, lastOp, hist, projections, sessions, inflight>>
rest == <<projections, sessions, inflight>>

NoTemplate == [id |-> "", name |-> "", category |-> "", template |-> <<>>]
NoContext ==
  [patterns |-> <<>>, decisions |-> <<>>, pitfalls |-> <<>>, summary |-> <<>>,
   lastUpdated |-> 0, codebaseFingerprint |-> <<>>]
NoVersion == <<"", 0>>
NoFiles == [f \in TemplateFiles |-> [present |-> FALSE, v |-> NoTemplate]]
NoResult == [patterns |-> <<>>, decisions |-> <<>>]
NoVersions == [x \in {} |-> 0]

\* (outcome, feedback) pairs reported to recordPromptOutcome
Reports == {<<"success", "Worked perfectly">>, <<"failure", "Bad">>, <<"partial", "">>}
TemplateIds == {"feature-implementation", "bug-fix", "refactor", "hotfix"}
\* `${templateId}-${Date.now()}`
versionId(templateId, now) == <<templateId, now>>
VersionIds == TemplateIds \X (0..MaxClock)

\* SessionState; id n stands for `session-${n}`, "" for an undefined field
NoSession ==
  [id |-> 0, startTime |-> 0, lastUpdated |-> 0, currentTicket |-> "",
   currentTask |-> "", workingFiles |-> <<>>, decisions |-> <<>>,
   blockers |-> <<>>, progress |-> <<>>, aiInteractions |-> <<>>,
   status |-> ""]
\* op: the call; err: the error raised, "" if none; ret: the text returned;
\* ticket: the ticket id passed; vid: the version id written or passed;
\* outcome, feedback: the report written to the version file, "" if none was;
\* mark: what the call met ("again": initializePrompts had run before / the
\* version had an outcome recorded before; "new": a version without one;
\* "unknown": no version of that id; "first", "same", "other": buildContext
\* ran for the first time, on the project of the build before, on another
\* one, or the file whose write failed; "snapshot", "none": a search met a
\* snapshot, or none); got: the context a read of the store returned or a
\* failed build had assembled; found: the lists a search returned; session:
\* the SessionState a SessionManager call returned
Op(op, err, ret, ticket, vid, outcome, feedback, mark) ==
  [op |-> op, err |-> err, ret |-> ret, ticket |-> ticket, vid |-> vid,
   outcome |-> outcome, feedback |-> feedback, mark |-> mark,
   got |-> [present |-> FALSE, v |-> NoContext], found |-> NoResult,
   session |-> [present |-> FALSE, v |-> NoSession]]
Plain(op, err) == Op(op, err, <<>>, "", NoVersion, "", "", "")

NoCalls == [n |-> 0, success |-> 0, failure |-> 0]
NoProject ==
  [files |-> <<>>, adrs |-> <<>>,
   manifest |-> [state |-> "absent", deps |-> <<>>, devDeps |-> <<>>]]
\* inited: initializePrompts has run; genOk: successful generatePrompt calls;
\* rec: recordPromptOutcome calls; calls: the reports counted per template;
\* recorded: the versions with a recorded outcome; built: the last completed
\* buildContext call, its project and the context it returned; sessionCalls:
\* the SessionManager calls made
NoHistory ==
  [inited |-> FALSE, genOk |-> 0, rec |-> 0, sessionCalls |-> 0,
   calls |-> [t \in TemplateIds |-> NoCalls], recorded |-> {},
   built |-> [present |-> FALSE, project |-> NoProject, ret |-> NoContext]]

\* savePatternsToMarkdown / saveDecisionsToMarkdown: the fields of each item
\* that the markdown file shows
savePatternsToMarkdown(patterns) ==
  [i \in DOMAIN patterns |->
     [name |-> patterns[i].name, description |-> patterns[i].description,
      frequency |-> patterns[i].frequency, files |-> Len(patterns[i].files),
      lastSeen |-> patterns[i].lastSeen, example |-> patterns[i].example]]
saveDecisionsToMarkdown(decisions) ==
  [i \in DOMAIN decisions |->
     [title |-> decisions[i].title, decision |-> decisions[i].decision,
      rationale |-> decisions[i].rationale, date |-> decisions[i].date]]
NoProjections ==
  [patterns |-> [present |-> FALSE, v |-> <<>>],
   decisions |-> [present |-> FALSE, v |-> <<>>]]

\* current: sessions/current.json; history: sessions/history/<id>.json by
\* session id; handoffs: sessions/handoffs/<id>.json by handoff id
NoSessions ==
  [current |-> [present |-> FALSE, v |-> NoSession],
   history |-> [x \in {} |-> NoSession],
   handoffs |-> [x \in {} |-> 0]]

\* the processes that may call recordPromptOutcome at the same time
Callers == {1, 2}
\* a generatePrompt call between two awaits: context is what it read at its
\* start, file the template it selected, relevant what its search returned
NoCompile ==
  [pc |-> "idle", ticket |-> "", context |-> NoContext, file |-> "",
   relevant |-> NoResult]
\* a recordPromptOutcome call between two awaits: read is the performance
\* map it read
NoRecord ==
  [pc |-> "idle", vid |-> NoVersion, outcome |-> "", feedback |-> "",
   templateId |-> "", read |-> [present |-> FALSE, v |-> NoVersions]]
Idle == [compile |-> NoCompile, records |-> [c \in Callers |-> NoRecord]]

Init ==
  /\ templatesDir \in BOOLEAN
  /\ \E present \in SUBSET {"feature-implementation", CustomFile} :
       /\ present # {} => templatesDir
       /\ templates = [f \in TemplateFiles |->
                         IF f \in present
                         THEN Some(CHOOSE t \in UserTemplates(f) : TRUE)
                         ELSE [present |-> FALSE, v |-> NoTemplate]]
  /\ standards \in StandardsDirs
  /\ compressed = [present |-> FALSE, v |-> NoContext]
  /\ versions = NoVersions
  /\ performance = [present |-> FALSE, v |-> NoVersions]
  /\ clock = 0
  /\ lastOp = Plain("init", "")
  /\ hist = NoHistory
  /\ projections = NoProjections /\ sessions = NoSessions /\ inflight = Idle

\* time passes between two calls
Tick ==
  /\ clock < MaxClock
  /\ clock' = clock + 1
  /\ UNCHANGED <<templatesDir, templates, standards, compressed, versions,
                 performance, lastOp, hist>>
  /\ UNCHANGED rest

\* a seeding that writes every default template, whatever is in the store
seededOverwriting(store) ==
  [f \in TemplateFiles |->
     IF \E i \in DOMAIN getDefaultTemplates : getDefaultTemplates[i].id = f
     THEN Some(getDefaultTemplates[CHOOSE i \in DOMAIN getDefaultTemplates :
                                     getDefaultTemplates[i].id = f])
     ELSE store[f]]

\* a seeding that writes the default templates only into an empty store
seededIntoEmpty(store) ==
  IF \E f \in TemplateFiles : store[f].present THEN store
  ELSE [f \in TemplateFiles |->
          IF \E i \in DOMAIN getDefaultTemplates : getDefaultTemplates[i].id = f
          THEN Some(getDefaultTemplates[CHOOSE i \in DOMAIN getDefaultTemplates :
                                          getDefaultTemplates[i].id = f])
          ELSE store[f]]

\* the template store after initializePrompts: each default template is
\* written when no file of its id exists
seeded(store) ==
  [f \in TemplateFiles |->
     IF ~store[f].present /\ \E i \in DOMAIN getDefaultTemplates : getDefaultTemplates[i].id = f
     THEN Some(getDefaultTemplates[CHOOSE i \in DOMAIN getDefaultTemplates :
                                     getDefaultTemplates[i].id = f])
     ELSE store[f]]

initializePrompts ==
  /\ templatesDir' = TRUE
  /\ templates' = seeded(templates)
  /\ lastOp' = Op("initializePrompts", "", <<>>, "", NoVersion, "", "",
                  IF hist.inited THEN "again" ELSE "")
  /\ hist' = [hist EXCEPT !.inited = TRUE]
  /\ UNCHANGED <<standards, compressed, versions, performance, clock>>
  /\ UNCHANGED rest

\* a write that leaves an existing snapshot file in place
writeJsonKeeping(file, data) == IF file.present THEN file ELSE Some(data)

\* writeJson(this.compressedPath, context): the file is replaced
writeJson(file, data) == Some(data)

\* buildContext(projectRoot): readJson of a malformed package.json throws in
\* extractImplicitDecisions, before anything is written
BuildContext(project) ==
  /\ IF project.manifest.state = "malformed"
     THEN /\ lastOp' = Plain("buildContext", "SyntaxError")
          /\ UNCHANGED <<compressed, hist, projections>>
     ELSE LET context == buildContext(project, clock)
          IN /\ compressed' = writeJson(compressed, context)
             /\ projections' =
                  [patterns |-> Some(savePatternsToMarkdown(context.patterns)),
                   decisions |-> Some(saveDecisionsToMarkdown(context.decisions))]
             /\ lastOp' = [Plain("buildContext", "") EXCEPT
                             !.mark = IF ~hist.built.present THEN "first"
                                      ELSE IF hist.built.project = project THEN "same"
                                      ELSE "other"]
             /\ hist' = [hist EXCEPT !.built = [present |-> TRUE, project |-> project,
                                                ret |-> context]]
  /\ UNCHANGED <<templatesDir, templates, standards, versions, performance, clock,
                 sessions, inflight>>

\* the writes of buildContext in the order it makes them
BuildWrites == <<"compressed.json", "patterns.md", "decisions.md">>

\* a failing build that puts the snapshot it replaced back
BuildContextRollingBack(project, step) ==
  /\ project.manifest.state # "malformed"
  /\ LET context == buildContext(project, clock)
     IN lastOp' = [Plain("buildContext", "EIO") EXCEPT !.mark = step,
                                                       !.got = Some(context)]
  /\ UNCHANGED <<templatesDir, templates, standards, compressed, versions,
                 performance, clock, hist, projections, sessions, inflight>>

\* buildContext(projectRoot) when the write of the file step is refused: the
\* writes before it are done, the error propagates, nothing after it runs
BuildContextFailing(project, step) ==
  /\ project.manifest.state # "malformed"
  /\ LET context == buildContext(project, clock)
     IN /\ compressed' = IF step = "compressed.json" THEN compressed
                         ELSE writeJson(compressed, context)
        /\ projections' = IF step = "decisions.md"
                          THEN [projections EXCEPT
                                  !.patterns = Some(savePatternsToMarkdown(context.patterns))]
                          ELSE projections
        /\ lastOp' = [Plain("buildContext", "EIO") EXCEPT !.mark = step,
                                                          !.got = Some(context)]
  /\ UNCHANGED <<templatesDir, templates, standards, versions, performance, clock,
                 hist, sessions, inflight>>

\* a reader that hands out an empty context where there is no snapshot
getCompressedContextOrEmpty(file) == [present |-> TRUE, v |-> file.v]

\* getCompressedContext: the snapshot file parsed, absent when there is none
getCompressedContext(file) == file

\* fs.readdir(templatesPath): the file names in an order the file system picks
readdirOrders(store) ==
  LET present == {f \in TemplateFiles : store[f].present}
  IN {o \in [1..Cardinality(present) -> present] :
        \A i, j \in DOMAIN o : i # j => o[i] # o[j]}

\* getTemplates: the parsed templates in readdir order
getTemplates(store, order) == [i \in DOMAIN order |-> store[order[i]].v]

\* the files selectBestTemplate can return for a ticket, over the readdir
\* orders; "" when it throws
selectable(store, ticket) ==
  {LET k == selectBestTemplate(getTemplates(store, order), ticket)
   IN IF k = 0 THEN "" ELSE order[k] : order \in readdirOrders(store)}

\* searchSimilarContext: what the two Fuse searches may return for a query,
\* every hit being an item of the snapshot
searchSimilarContext(context) ==
  { [patterns |-> <<>>, decisions |-> <<>>],
    [patterns |-> context.patterns, decisions |-> context.decisions] }

\* a search that raises where there is no snapshot
SearchSimilarContextStrict(query) ==
  /\ lastOp' = IF compressed.present
               THEN [Plain("searchSimilarContext", "") EXCEPT
                       !.mark = "snapshot",
                       !.found = [patterns |-> compressed.v.patterns,
                                  decisions |-> compressed.v.decisions]]
               ELSE [Plain("searchSimilarContext", "No context found") EXCEPT
                       !.mark = "none"]
  /\ UNCHANGED <<templatesDir, templates, standards, compressed, versions,
                 performance, clock, hist>>
  /\ UNCHANGED rest

\* a call of getCompressedContext
GetCompressedContext ==
  /\ lastOp' = [Plain("getCompressedContext", "") EXCEPT
                  !.got = getCompressedContext(compressed)]
  /\ UNCHANGED <<templatesDir, templates, standards, compressed, versions,
                 performance, clock, hist>>
  /\ UNCHANGED rest

Queries == {"zzz-no-match-qqq", "function"}

\* a call of searchSimilarContext(query): empty lists without a snapshot
SearchSimilarContext(query) ==
  LET context == getCompressedContext(compressed)
  IN /\ \E relevant \in (IF context.present THEN searchSimilarContext(context.v)
                          ELSE {NoResult}) :
          lastOp' = [Plain("searchSimilarContext", "") EXCEPT
                       !.mark = IF context.present THEN "snapshot" ELSE "none",
                       !.found = relevant]
     /\ UNCHANGED <<templatesDir, templates, standards, compressed, versions,
                    performance, clock, hist>>
     /\ UNCHANGED rest

\* savePromptVersion: writeJson of versions/<id>.json
savePromptVersion(store, templateId, content, ticket, now) ==
  LET id == versionId(templateId, now)
      version == [id |-> id, templateId |-> templateId, version |-> "1.0.0",
                  content |-> content,
                  metadata |-> [createdAt |-> now, usedFor |-> ticket.ticket_id,
                                outcome |-> "success", feedback |-> ""]]
  IN [x \in DOMAIN store \cup {id} |-> IF x = id THEN version ELSE store[x]]

generatePromptFails(ticket, err) ==
  /\ lastOp' = Op("generatePrompt", err, <<>>, ticket.ticket_id, NoVersion, "", "", "")
  /\ UNCHANGED <<versions, hist>>

\* a compile that also counts a use of the selected template
generatePromptCounting(ticket) ==
  /\ IF ~getCompressedContext(compressed).present
     THEN generatePromptFails(ticket, "No context found") /\ UNCHANGED performance
     ELSE IF ~templatesDir
     THEN generatePromptFails(ticket, "ENOENT") /\ UNCHANGED performance
     ELSE \E file \in selectable(templates, ticket) :
          \E relevant \in searchSimilarContext(compressed.v) :
            IF file = ""
            THEN generatePromptFails(ticket, "No prompt template found")
                 /\ UNCHANGED performance
            ELSE LET template == templates[file].v
                     content == fillTemplate(template, ticket, compressed.v, relevant,
                                             loadStandards(standards))
                     id == versionId(template.id, clock)
                 IN /\ versions' = savePromptVersion(versions, template.id, content,
                                                     ticket, clock)
                    /\ performance' = [present |-> TRUE,
                                       v |-> [t \in DOMAIN performance.v \cup {template.id} |->
                                                IF t \in DOMAIN performance.v
                                                THEN performance.v[t]
                                                ELSE [templateId |-> t, totalUses |-> 0,
                                                      successCount |-> 0, failureCount |-> 0,
                                                      averageRating |-> [num |-> 0, den |-> 1],
                                                      commonIssues |-> <<>>,
                                                      lastAnalyzed |-> clock]]]
                    /\ lastOp' = Op("generatePrompt", "", content, ticket.ticket_id, id, "", "", "")
                    /\ hist' = [hist EXCEPT !.genOk = @ + 1,
                                            !.recorded = @ \ {id}]
  /\ UNCHANGED <<templatesDir, templates, standards, compressed, clock>>
  /\ UNCHANGED rest

generatePrompt(ticket) ==
  /\ IF ~getCompressedContext(compressed).present
     THEN generatePromptFails(ticket, "No context found")
     ELSE IF ~templatesDir
     THEN generatePromptFails(ticket, "ENOENT")
     ELSE \E file \in selectable(templates, ticket) :
          \E relevant \in searchSimilarContext(compressed.v) :
            IF file = ""
            THEN generatePromptFails(ticket, "No prompt template found")
            ELSE LET template == templates[file].v
                     content == fillTemplate(template, ticket, compressed.v, relevant,
                                             loadStandards(standards))
                     id == versionId(template.id, clock)
                 IN /\ versions' = savePromptVersion(versions, template.id, content,
                                                     ticket, clock)
                    /\ lastOp' = Op("generatePrompt", "", content, ticket.ticket_id, id, "", "", "")
                    /\ hist' = [hist EXCEPT !.genOk = @ + 1,
                                            !.recorded = @ \ {id}]
  /\ UNCHANGED <<templatesDir, templates, standards, compressed, performance, clock>>
  /\ UNCHANGED rest

\* generatePrompt(ticket) when the write of the version file is refused: the
\* error of savePromptVersion propagates before the return
generatePromptFailing(ticket) ==
  /\ getCompressedContext(compressed).present /\ templatesDir
  /\ \E file \in selectable(templates, ticket) :
       /\ file # ""
       /\ lastOp' = Op("generatePrompt", "EIO", <<>>, ticket.ticket_id, NoVersion,
                       "", "", "")
  /\ UNCHANGED <<templatesDir, templates, standards, compressed, versions,
                 performance, clock, hist, projections, sessions, inflight>>

\* generatePrompt(ticket) as the awaits divide it, other calls running in
\* between. First await: getCompressedContext.
generatePromptStart(ticket) ==
  /\ inflight.compile.pc = "idle"
  /\ LET context == getCompressedContext(compressed)
     IN IF ~context.present
        THEN /\ lastOp' = Op("generatePrompt", "No context found", <<>>,
                             ticket.ticket_id, NoVersion, "", "", "")
             /\ UNCHANGED inflight
        ELSE /\ inflight' = [inflight EXCEPT
                               !.compile = [NoCompile EXCEPT !.pc = "select",
                                                             !.ticket = ticket.ticket_id,
                                                             !.context = context.v]]
             /\ UNCHANGED lastOp
  /\ UNCHANGED <<templatesDir, templates, standards, compressed, versions,
                 performance, clock, hist, projections, sessions>>

\* second await: selectBestTemplate
generatePromptSelect ==
  /\ inflight.compile.pc = "select"
  /\ LET ticket == CHOOSE t \in Tickets : t.ticket_id = inflight.compile.ticket
     IN IF ~templatesDir
        THEN /\ lastOp' = Op("generatePrompt", "ENOENT", <<>>, ticket.ticket_id,
                             NoVersion, "", "", "")
             /\ inflight' = [inflight EXCEPT !.compile = NoCompile]
        ELSE \E file \in selectable(templates, ticket) :
               IF file = ""
               THEN /\ lastOp' = Op("generatePrompt", "No prompt template found", <<>>,
                                    ticket.ticket_id, NoVersion, "", "", "")
                    /\ inflight' = [inflight EXCEPT !.compile = NoCompile]
               ELSE /\ inflight' = [inflight EXCEPT !.compile.pc = "search",
                                                    !.compile.file = file]
                    /\ UNCHANGED lastOp
  /\ UNCHANGED <<templatesDir, templates, standards, compressed, versions,
                 performance, clock, hist, projections, sessions>>

\* third await: searchSimilarContext, which reads the snapshot file itself
generatePromptSearch ==
  /\ inflight.compile.pc = "search"
  /\ LET context == getCompressedContext(compressed)
     IN \E relevant \in (IF context.present THEN searchSimilarContext(context.v)
                         ELSE {NoResult}) :
          inflight' = [inflight EXCEPT !.compile.pc = "fill",
                                       !.compile.relevant = relevant]
  /\ UNCHANGED <<templatesDir, templates, standards, compressed, versions,
                 performance, clock, lastOp, hist, projections, sessions>>

\* loadStandards, fillTemplate, savePromptVersion and the return
generatePromptFinish ==
  /\ inflight.compile.pc = "fill"
  /\ templates[inflight.compile.file].present
  /\ LET ticket == CHOOSE t \in Tickets : t.ticket_id = inflight.compile.ticket
         template == templates[inflight.compile.file].v
         content == fillTemplate(template, ticket, inflight.compile.context,
                                 inflight.compile.relevant, loadStandards(standards))
         id == versionId(template.id, clock)
     IN /\ versions' = savePromptVersion(versions, template.id, content, ticket, clock)
        /\ lastOp' = Op("generatePrompt", "", content, ticket.ticket_id, id, "", "", "")
        /\ hist' = [hist EXCEPT !.genOk = @ + 1, !.recorded = @ \ {id}]
  /\ inflight' = [inflight EXCEPT !.compile = NoCompile]
  /\ UNCHANGED <<templatesDir, templates, standards, compressed, performance, clock,
                 projections, sessions>>

\* ------------------------------------------------------------ SessionManager
\* saveSessionHistory: writeJson of history/<session.id>.json
saveSessionHistory(history, session) ==
  [x \in DOMAIN history \cup {session.id} |->
     IF x = session.id THEN session ELSE history[x]]

\* the session initializeSession creates at time now
newSession(ticketId, task, now) ==
  [NoSession EXCEPT !.id = now, !.startTime = now, !.lastUpdated = now,
                    !.currentTicket = ticketId, !.currentTask = task,
                    !.status = "active"]

\* the session files after initializeSession(ticketId, task)
initializeSessionOn(store, ticketId, task, now) ==
  LET session == newSession(ticketId, task, now)
  IN [store EXCEPT !.current = Some(session),
                   !.history = saveSessionHistory(store.history, session)]

\* the session files after updateSession(updates), a current session existing:
\* {...current, ...updates, lastUpdated} goes to current.json and the history
updateSession(store, updates, now) ==
  LET current == store.current.v
      merged == [k \in DOMAIN current |->
                   IF k \in DOMAIN updates THEN updates[k] ELSE current[k]]
      updated == [merged EXCEPT !.lastUpdated = now]
  IN [store EXCEPT !.current = Some(updated),
                   !.history = saveSessionHistory(store.history, updated)]

\* Array.from(new Set(items)): the first occurrence of each item, in order
RECURSIVE dedupe(_)
dedupe(items) ==
  IF items = <<>> THEN <<>>
  ELSE LET init == dedupe(SubSeq(items, 1, Len(items) - 1))
           last == items[Len(items)]
       IN IF \E i \in DOMAIN init : init[i] = last THEN init ELSE Append(init, last)

\* the session files after logProgress(...), a current session existing
logProgressOn(store, milestone, description, filesChanged, testStatus, now) ==
  LET current == store.current.v
      newProgress == [timestamp |-> now, milestone |-> milestone,
                      description |-> description, filesChanged |-> filesChanged,
                      testStatus |-> testStatus]
  IN updateSession(store,
                   [progress |-> Append(current.progress, newProgress),
                    workingFiles |-> dedupe(current.workingFiles \o filesChanged)],
                   now)

\* a SessionManager call that throws for want of a current session
noActiveSession(op) ==
  /\ ~sessions.current.present
  /\ lastOp' = Plain(op, "No active session found")
  /\ UNCHANGED sessions

initializeSession(ticketId, task) ==
  /\ sessions' = initializeSessionOn(sessions, ticketId, task, clock)
  /\ lastOp' = [Plain("initializeSession", "") EXCEPT
                  !.session = Some(newSession(ticketId, task, clock))]
  /\ hist' = [hist EXCEPT !.sessionCalls = @ + 1]
  /\ UNCHANGED <<templatesDir, templates, standards, compressed, versions,
                 performance, clock, projections, inflight>>

logDecision(decision, rationale) ==
  /\ \/ noActiveSession("logDecision")
     \/ /\ sessions.current.present
        /\ LET current == sessions.current.v
               newDecision == [id |-> <<clock, Len(current.decisions) + 1>>,
                               timestamp |-> clock, decision |-> decision,
                               rationale |-> rationale, impact |-> <<>>,
                               reversible |-> TRUE]
           IN sessions' = updateSession(sessions,
                            [decisions |-> Append(current.decisions, newDecision)],
                            clock)
        /\ lastOp' = Plain("logDecision", "")
  /\ hist' = [hist EXCEPT !.sessionCalls = @ + 1]
  /\ UNCHANGED <<templatesDir, templates, standards, compressed, versions,
                 performance, clock, projections, inflight>>

logBlocker(description, category, severity) ==
  /\ \/ noActiveSession("logBlocker")
     \/ /\ sessions.current.present
        /\ LET current == sessions.current.v
               newBlocker == [id |-> <<clock, Len(current.blockers) + 1>>,
                              timestamp |-> clock, description |-> description,
                              category |-> category, severity |-> severity,
                              status |-> "open", resolution |-> ""]
           IN sessions' = updateSession(sessions,
                            [blockers |-> Append(current.blockers, newBlocker)],
                            clock)
        /\ lastOp' = Plain("logBlocker", "")
  /\ hist' = [hist EXCEPT !.sessionCalls = @ + 1]
  /\ UNCHANGED <<templatesDir, templates, standards, compressed, versions,
                 performance, clock, projections, inflight>>

\* resolveBlocker: nothing is written when no blocker has the id
resolveBlocker(blockerId, resolution) ==
  /\ \/ noActiveSession("resolveBlocker")
     \/ /\ sessions.current.present
        /\ LET blockers == sessions.current.v.blockers
               hits == {i \in DOMAIN blockers : blockers[i].id = blockerId}
           IN IF hits = {} THEN UNCHANGED sessions
              ELSE LET i == CHOOSE k \in hits : \A j \in hits : k <= j
                   IN sessions' = updateSession(sessions,
                        [blockers |-> [blockers EXCEPT ![i].status = "resolved",
                                                       ![i].resolution = resolution]],
                        clock)
        /\ lastOp' = Plain("resolveBlocker", "")
  /\ hist' = [hist EXCEPT !.sessionCalls = @ + 1]
  /\ UNCHANGED <<templatesDir, templates, standards, compressed, versions,
                 performance, clock, projections, inflight>>

logProgress(milestone, description, filesChanged, testStatus) ==
  /\ \/ noActiveSession("logProgress")
     \/ /\ sessions.current.present
        /\ sessions' = logProgressOn(sessions, milestone, description, filesChanged,
                                     testStatus, clock)
        /\ lastOp' = Plain("logProgress", "")
  /\ hist' = [hist EXCEPT !.sessionCalls = @ + 1]
  /\ UNCHANGED <<templatesDir, templates, standards, compressed, versions,
                 performance, clock, projections, inflight>>

logAIInteraction(prompt, response, outcome, feedback) ==
  /\ \/ noActiveSession("logAIInteraction")
     \/ /\ sessions.current.present
        /\ LET current == sessions.current.v
               interaction == [id |-> <<clock, Len(current.aiInteractions) + 1>>,
                               timestamp |-> clock, prompt |-> prompt,
                               response |-> response, outcome |-> outcome,
                               feedback |-> feedback]
           IN sessions' = updateSession(sessions,
                            [aiInteractions |-> Append(current.aiInteractions, interaction)],
                            clock)
        /\ lastOp' = Plain("logAIInteraction", "")
  /\ hist' = [hist EXCEPT !.sessionCalls = @ + 1]
  /\ UNCHANGED <<templatesDir, templates, standards, compressed, versions,
                 performance, clock, projections, inflight>>

\* resumeFromHandoff: the session object initializeSession returned gets the
\* handoff's summary and files in memory only; logProgress reads the session
\* from current.json and writes the progress entry there
resumeFromHandoff(handoffId) ==
  /\ IF handoffId \notin DOMAIN sessions.handoffs
     THEN /\ lastOp' = Plain("resumeFromHandoff", "Handoff not found")
          /\ UNCHANGED sessions
     ELSE LET handoff == sessions.handoffs[handoffId]
              created == initializeSessionOn(sessions, "", "", clock)
              session == [created.current.v EXCEPT
                            !.currentTask = handoff.summary,
                            !.workingFiles = handoff.relevantFiles]
          IN /\ sessions' = logProgressOn(created, "Session Resumed",
                                          <<"Resumed from handoff: ", handoff.summary>>,
                                          handoff.relevantFiles, "none", clock)
             /\ lastOp' = [Plain("resumeFromHandoff", "") EXCEPT
                             !.session = Some(session)]
  /\ hist' = [hist EXCEPT !.sessionCalls = @ + 1]
  /\ UNCHANGED <<templatesDir, templates, standards, compressed, versions,
                 performance, clock, projections, inflight>>

\* completeSession(summary): the optional 'Session Complete' progress entry,
\* the status update, then current.json is unlinked
completeSession(summary) ==
  /\ \/ noActiveSession("completeSession")
     \/ /\ sessions.current.present
        /\ LET logged == IF summary # ""
                         THEN logProgressOn(sessions, "Session Complete", <<summary>>,
                                            <<>>, "complete", clock)
                         ELSE sessions
               updated == updateSession(logged, [status |-> "completed"], clock)
           IN sessions' = [updated EXCEPT
                             !.current = [present |-> FALSE, v |-> NoSession]]
        /\ lastOp' = Plain("completeSession", "")
  /\ hist' = [hist EXCEPT !.sessionCalls = @ + 1]
  /\ UNCHANGED <<templatesDir, templates, standards, compressed, versions,
                 performance, clock, projections, inflight>>

\* a call of getCurrentSession
GetCurrentSession ==
  /\ lastOp' = [Plain("getCurrentSession", "") EXCEPT !.session = sessions.current]
  /\ UNCHANGED <<templatesDir, templates, standards, compressed, versions,
                 performance, clock, hist, projections, sessions, inflight>>

\* successCount / totalUses as an exact fraction in lowest terms
RECURSIVE gcd(_, _)
gcd(a, b) == IF b = 0 THEN a ELSE gcd(b, a % b)
ratio(a, b) == [num |-> a \div gcd(a, b), den |-> b \div gcd(a, b)]

\* an update that counts every outcome other than success as a failure
updateTemplatePerformancePartialFails(file, templateId, outcome, now) ==
  LET performance0 == file.v
      perf0 == IF templateId \in DOMAIN performance0 THEN performance0[templateId]
               ELSE [templateId |-> templateId, totalUses |-> 0, successCount |-> 0,
                     failureCount |-> 0, averageRating |-> ratio(0, 1),
                     commonIssues |-> <<>>, lastAnalyzed |-> now]
      totalUses == perf0.totalUses + 1
      successCount == perf0.successCount + (IF outcome = "success" THEN 1 ELSE 0)
      failureCount == perf0.failureCount + (IF outcome # "success" THEN 1 ELSE 0)
      perf == [perf0 EXCEPT !.totalUses = totalUses,
                            !.successCount = successCount,
                            !.failureCount = failureCount,
                            !.lastAnalyzed = now,
                            !.averageRating = ratio(successCount, totalUses)]
  IN [present |-> TRUE,
      v |-> [t \in DOMAIN performance0 \cup {templateId} |->
               IF t = templateId THEN perf ELSE performance0[t]]]

\* an update that counts a use only when it creates the entry
updateTemplatePerformanceOnce(file, templateId, outcome, now) ==
  LET performance0 == file.v
      perf0 == IF templateId \in DOMAIN performance0 THEN performance0[templateId]
               ELSE [templateId |-> templateId, totalUses |-> 0, successCount |-> 0,
                     failureCount |-> 0, averageRating |-> ratio(0, 1),
                     commonIssues |-> <<>>, lastAnalyzed |-> now]
      totalUses == IF templateId \in DOMAIN performance0 THEN perf0.totalUses
                   ELSE perf0.totalUses + 1
      successCount == perf0.successCount + (IF outcome = "success" THEN 1 ELSE 0)
      failureCount == perf0.failureCount + (IF outcome = "failure" THEN 1 ELSE 0)
      perf == [perf0 EXCEPT !.totalUses = totalUses,
                            !.successCount = successCount,
                            !.failureCount = failureCount,
                            !.lastAnalyzed = now,
                            !.averageRating = ratio(successCount, totalUses)]
  IN [present |-> TRUE,
      v |-> [t \in DOMAIN performance0 \cup {templateId} |->
               IF t = templateId THEN perf ELSE performance0[t]]]

\* an update that writes a map holding the updated entry only
updateTemplatePerformanceAlone(file, templateId, outcome, now) ==
  LET performance0 == file.v
      perf0 == IF templateId \in DOMAIN performance0 THEN performance0[templateId]
               ELSE [templateId |-> templateId, totalUses |-> 0, successCount |-> 0,
                     failureCount |-> 0, averageRating |-> ratio(0, 1),
                     commonIssues |-> <<>>, lastAnalyzed |-> now]
      totalUses == perf0.totalUses + 1
      successCount == perf0.successCount + (IF outcome = "success" THEN 1 ELSE 0)
      failureCount == perf0.failureCount + (IF outcome = "failure" THEN 1 ELSE 0)
      perf == [perf0 EXCEPT !.totalUses = totalUses,
                            !.successCount = successCount,
                            !.failureCount = failureCount,
                            !.lastAnalyzed = now,
                            !.averageRating = ratio(successCount, totalUses)]
  IN [present |-> TRUE,
      v |-> [t \in {templateId} |->
               IF t = templateId THEN perf ELSE performance0[t]]]

\* an update that rates with the success count it read
updateTemplatePerformanceStaleRating(file, templateId, outcome, now) ==
  LET performance0 == file.v
      perf0 == IF templateId \in DOMAIN performance0 THEN performance0[templateId]
               ELSE [templateId |-> templateId, totalUses |-> 0, successCount |-> 0,
                     failureCount |-> 0, averageRating |-> ratio(0, 1),
                     commonIssues |-> <<>>, lastAnalyzed |-> now]
      totalUses == perf0.totalUses + 1
      successCount == perf0.successCount + (IF outcome = "success" THEN 1 ELSE 0)
      failureCount == perf0.failureCount + (IF outcome = "failure" THEN 1 ELSE 0)
      perf == [perf0 EXCEPT !.totalUses = totalUses,
                            !.successCount = successCount,
                            !.failureCount = failureCount,
                            !.lastAnalyzed = now,
                            !.averageRating = ratio(perf0.successCount, totalUses)]
  IN [present |-> TRUE,
      v |-> [t \in DOMAIN performance0 \cup {templateId} |->
               IF t = templateId THEN perf ELSE performance0[t]]]

\* updateTemplatePerformance: the new content of performance.json
updateTemplatePerformance(file, templateId, outcome, now) ==
  LET performance0 == file.v
      perf0 == IF templateId \in DOMAIN performance0 THEN performance0[templateId]
               ELSE [templateId |-> templateId, totalUses |-> 0, successCount |-> 0,
                     failureCount |-> 0, averageRating |-> ratio(0, 1),
                     commonIssues |-> <<>>, lastAnalyzed |-> now]
      totalUses == perf0.totalUses + 1
      successCount == perf0.successCount + (IF outcome = "success" THEN 1 ELSE 0)
      failureCount == perf0.failureCount + (IF outcome = "failure" THEN 1 ELSE 0)
      perf == [perf0 EXCEPT !.totalUses = totalUses,
                            !.successCount = successCount,
                            !.failureCount = failureCount,
                            !.lastAnalyzed = now,
                            !.averageRating = ratio(successCount, totalUses)]
  IN [present |-> TRUE,
      v |-> [t \in DOMAIN performance0 \cup {templateId} |->
               IF t = templateId THEN perf ELSE performance0[t]]]

\* recordPromptOutcome as the awaits divide it, for a caller c, other calls
\* running in between. First the version file: read, changed, written back.
recordPromptOutcomeStart(c, vid, outcome, feedback) ==
  /\ inflight.records[c].pc = "idle"
  /\ IF vid \in DOMAIN versions
     THEN LET version == [versions[vid] EXCEPT !.metadata.outcome = outcome,
                                               !.metadata.feedback = feedback]
          IN /\ versions' = [versions EXCEPT ![vid] = version]
             /\ inflight' = [inflight EXCEPT
                               !.records[c] = [NoRecord EXCEPT
                                                 !.pc = "read", !.vid = vid,
                                                 !.outcome = outcome,
                                                 !.feedback = feedback,
                                                 !.templateId = version.templateId]]
             /\ UNCHANGED lastOp
     ELSE /\ lastOp' = Op("recordPromptOutcome", "", <<>>, "", vid, "", "", "unknown")
          /\ UNCHANGED <<versions, inflight>>
  /\ UNCHANGED <<templatesDir, templates, standards, compressed, performance, clock,
                 hist, projections, sessions>>

\* updateTemplatePerformance up to its read of performance.json
updateTemplatePerformanceRead(c) ==
  /\ inflight.records[c].pc = "read"
  /\ inflight' = [inflight EXCEPT !.records[c].pc = "write",
                                  !.records[c].read = performance]
  /\ UNCHANGED <<templatesDir, templates, standards, compressed, versions,
                 performance, clock, lastOp, hist, projections, sessions>>

\* updateTemplatePerformance from the read on: the map it read, with the
\* template's entry counted up, is written back
updateTemplatePerformanceWrite(c) ==
  /\ inflight.records[c].pc = "write"
  /\ LET call == inflight.records[c]
     IN /\ performance' = updateTemplatePerformance(call.read, call.templateId,
                                                    call.outcome, clock)
        /\ lastOp' = Op("recordPromptOutcome", "", <<>>, "", call.vid, call.outcome,
                        call.feedback,
                        IF call.vid \in hist.recorded THEN "again" ELSE "new")
        /\ hist' = [hist EXCEPT
              !.rec = @ + 1,
              !.recorded = @ \cup {call.vid},
              !.calls[call.templateId] =
                 [n |-> @.n + 1,
                  success |-> @.success + (IF call.outcome = "success" THEN 1 ELSE 0),
                  failure |-> @.failure + (IF call.outcome = "failure" THEN 1 ELSE 0)]]
  /\ inflight' = [inflight EXCEPT !.records[c] = NoRecord]
  /\ UNCHANGED <<templatesDir, templates, standards, compressed, versions, clock,
                 projections, sessions>>

\* a recording that takes the template id from the version id and counts the
\* report also when no version file exists
recordPromptOutcomeUnchecked(vid, outcome, feedback) ==
  /\ performance' = updateTemplatePerformance(performance,
                        IF vid \in DOMAIN versions THEN versions[vid].templateId ELSE vid[1],
                        outcome, clock)
  /\ versions' = [x \in DOMAIN versions |->
                    IF x = vid THEN [versions[x] EXCEPT !.metadata.outcome = outcome,
                                                        !.metadata.feedback = feedback]
                    ELSE versions[x]]
  /\ lastOp' = IF vid \in DOMAIN versions
               THEN Op("recordPromptOutcome", "", <<>>, "", vid, outcome, feedback,
                       IF vid \in hist.recorded THEN "again" ELSE "new")
               ELSE Op("recordPromptOutcome", "", <<>>, "", vid, "", "", "unknown")
  /\ hist' = [hist EXCEPT !.rec = @ + 1]
  /\ UNCHANGED <<templatesDir, templates, standards, compressed, clock>>
  /\ UNCHANGED rest

recordPromptOutcome(vid, outcome, feedback) ==
  /\ IF vid \in DOMAIN versions
     THEN LET version == [versions[vid] EXCEPT !.metadata.outcome = outcome,
                                               !.metadata.feedback = feedback]
          IN /\ versions' = [versions EXCEPT ![vid] = version]
             /\ performance' = updateTemplatePerformance(performance, version.templateId,
                                                         outcome, clock)
             /\ lastOp' = Op("recordPromptOutcome", "", <<>>, "", vid, outcome, feedback,
                             IF vid \in hist.recorded THEN "again" ELSE "new")
             /\ hist' = [hist EXCEPT
                   !.rec = @ + 1,
                   !.recorded = @ \cup {vid},
                   !.calls[version.templateId] =
                      [n |-> @.n + 1,
                       success |-> @.success + (IF outcome = "success" THEN 1 ELSE 0),
                       failure |-> @.failure + (IF outcome = "failure" THEN 1 ELSE 0)]]
     ELSE /\ lastOp' = Op("recordPromptOutcome", "", <<>>, "", vid, "", "", "unknown")
          /\ UNCHANGED <<versions, performance, hist>>
  /\ UNCHANGED <<templatesDir, templates, standards, compressed, clock>>
  /\ UNCHANGED rest

\* analyzePromptPerformance: the entries of performance.json, none without
\* the file
analyzePromptPerformance(file) == IF file.present THEN file.v ELSE NoVersions

\* perf.averageRating < 0.7, on the exact fraction
belowRating(perf) == 10 * perf.averageRating.num < 7 * perf.averageRating.den

\* the template ids of a set, listed in string order
TemplateOrder == <<"bug-fix", "feature-implementation", "hotfix", "refactor">>
listed(ids) ==
  LET present == {k \in DOMAIN TemplateOrder : TemplateOrder[k] \in ids}
      rank(k) == Cardinality({j \in present : j <= k})
  IN [r \in 1..Cardinality(present) |->
        TemplateOrder[CHOOSE k \in present : rank(k) = r]]

\* prompt:optimize: the templates listed under "Optimization Suggestions"
promptOptimizeCommand ==
  LET perfs == analyzePromptPerformance(performance)
      underPerforming == {t \in DOMAIN perfs :
                            belowRating(perfs[t]) /\ perfs[t].totalUses > 3}
  IN /\ lastOp' = Op("prompt:optimize", "", listed(underPerforming), "", NoVersion,
                     "", "", "")
     /\ UNCHANGED <<templatesDir, templates, standards, compressed, versions,
                    performance, clock, hist>>
     /\ UNCHANGED rest

\* optimizePrompts: the templates logged with "has low success rate";
\* getTemplates throws where the templates directory is missing
optimizePrompts ==
  LET perfs == analyzePromptPerformance(performance)
      low == {t \in DOMAIN perfs : belowRating(perfs[t]) /\ perfs[t].totalUses > 5}
  IN /\ lastOp' = IF templatesDir
                  THEN Op("optimizePrompts", "", listed(low), "", NoVersion, "", "", "")
                  ELSE Plain("optimizePrompts", "ENOENT")
     /\ UNCHANGED <<templatesDir, templates, standards, compressed, versions,
                    performance, clock, hist>>
     /\ UNCHANGED rest

\* ---------------------------------------------------------- specifications
\* Compilation: every ticket, project and template store; no time passes
Compile == hist.genOk < MaxCompile /\ \E ticket \in Tickets : generatePrompt(ticket)
Build == \E project \in Projects : BuildContext(project)

Next ==
  \/ initializePrompts
  \/ Build
  \/ Compile

Spec == Init /\ [][Next]_vars

\* Feedback: compiles at several clock values and outcome reports
FeedbackTickets == {t \in Tickets : t.ticket_id \in {"T-1", "T-2"}}
FeedbackProjects == {p \in Projects : p.files = <<>> /\ p.manifest.state = "absent"}
\* the disk as gen:prompt prepares it: templates seeded, context built
InitFeedback ==
  /\ templatesDir = TRUE
  /\ templates = seeded([f \in TemplateFiles |-> [present |-> FALSE, v |-> NoTemplate]])
  /\ standards \in {s \in StandardsDirs : s.best.present}
  /\ \E project \in FeedbackProjects : compressed = Some(buildContext(project, 0))
  /\ versions = NoVersions
  /\ performance = [present |-> FALSE, v |-> NoVersions]
  /\ clock = 0
  /\ lastOp = Plain("init", "")
  /\ hist = [NoHistory EXCEPT !.inited = TRUE]
  /\ projections = [patterns |-> Some(savePatternsToMarkdown(compressed.v.patterns)),
                    decisions |-> Some(saveDecisionsToMarkdown(compressed.v.decisions))]
  /\ sessions = NoSessions /\ inflight = Idle

FeedbackVersionIds ==
  {versionId(t, now) : t \in {"feature-implementation", "bug-fix"}, now \in 0..MaxClock}

CompileFeedback ==
  hist.genOk < MaxGen /\ \E ticket \in FeedbackTickets : generatePrompt(ticket)
Record ==
  /\ hist.rec < MaxRec
  /\ \E vid \in FeedbackVersionIds, r \in Reports :
       recordPromptOutcome(vid, r[1], r[2])

NextFeedback ==
  \/ Tick
  \/ initializePrompts
  \/ CompileFeedback
  \/ Record

SpecFeedback == InitFeedback /\ [][NextFeedback]_vars

\* Context store: builds of several trees at several clock values, reads and
\* searches, with compiles and outcome reports in between
ContextTickets == {t \in Tickets : t.ticket_id = "T-1"}
InitContext ==
  /\ Init
  /\ \A f \in TemplateFiles : ~templates[f].present
  /\ standards.best.present
BuildOfContext == \E project \in ContextProjects : BuildContext(project)
Search == \E query \in Queries : SearchSimilarContext(query)
CompileOfContext ==
  hist.genOk < MaxCompile /\ \E ticket \in ContextTickets : generatePrompt(ticket)
\* a failure report for the prompt just compiled
RecordOfContext ==
  /\ lastOp.op = "generatePrompt" /\ lastOp.err = ""
  /\ recordPromptOutcome(lastOp.vid, "failure", "Bad")

NextContext ==
  \/ Tick
  \/ initializePrompts
  \/ BuildOfContext
  \/ GetCompressedContext
  \/ Search
  \/ CompileOfContext
  \/ RecordOfContext

SpecContext == InitContext /\ [][NextContext]_vars

\* Fingerprints: builds over manifests that declare up to MaxDeps names in
\* every order, with two version ranges
NameLists(names) ==
  UNION {{l \in [1..n -> names] : \A i, j \in 1..n : i # j => l[i] # l[j]} :
           n \in 0..MaxDeps}
Manifests ==
  {[state |-> "ok", deps |-> d, devDeps |-> v, range |-> r] :
     d \in NameLists({"a", "a,b", "b"}), v \in NameLists({"a", "b"}),
     r \in {"^1.0.0", "^2.0.0"}}
ManifestProjects == {[files |-> <<>>, adrs |-> <<>>, manifest |-> m] : m \in Manifests}
InitFingerprint ==
  /\ Init
  /\ ~templatesDir
  /\ standards.best.present
BuildOfManifest == \E project \in ManifestProjects : BuildContext(project)

NextFingerprint ==
  \/ BuildOfManifest
  \/ GetCompressedContext

SpecFingerprint == InitFingerprint /\ [][NextFingerprint]_vars

\* Optimization: the two places that flag templates, over performance files
\* as recordPromptOutcome leaves them
OptimizeTemplates == {"bug-fix", "feature-implementation"}
PerfEntries(t) ==
  {[templateId |-> t, totalUses |-> u, successCount |-> c, failureCount |-> f,
    averageRating |-> ratio(c, u), commonIssues |-> <<>>, lastAnalyzed |-> 0] :
     u \in 1..MaxUses, c \in 0..MaxUses, f \in 0..MaxUses}
PerformanceFiles ==
  {[present |-> FALSE, v |-> NoVersions]} \cup
  UNION {{[present |-> TRUE, v |-> m] :
            m \in {g \in [ts -> UNION {PerfEntries(t) : t \in ts}] :
                     \A t \in ts : /\ g[t].templateId = t
                                    /\ g[t].successCount <= g[t].totalUses
                                    /\ g[t].failureCount \in
                                         {0, g[t].totalUses - g[t].successCount}}} :
         ts \in SUBSET OptimizeTemplates \ {{}}}

InitOptimize ==
  /\ templatesDir \in BOOLEAN
  /\ templates = IF templatesDir
                 THEN seeded([f \in TemplateFiles |-> [present |-> FALSE, v |-> NoTemplate]])
                 ELSE [f \in TemplateFiles |-> [present |-> FALSE, v |-> NoTemplate]]
  /\ standards \in {d \in StandardsDirs : d.best.present}
  /\ compressed = [present |-> FALSE, v |-> NoContext]
  /\ versions = NoVersions
  /\ performance \in PerformanceFiles
  /\ clock = 0
  /\ lastOp = Plain("init", "")
  /\ hist = [NoHistory EXCEPT
               !.inited = templatesDir,
               !.calls = [t \in TemplateIds |->
                            IF t \in DOMAIN performance.v
                            THEN [n |-> performance.v[t].totalUses,
                                  success |-> performance.v[t].successCount,
                                  failure |-> performance.v[t].failureCount]
                            ELSE NoCalls]]
  /\ projections = NoProjections /\ sessions = NoSessions /\ inflight = Idle

NextOptimize ==
  \/ promptOptimizeCommand
  \/ optimizePrompts

SpecOptimize == InitOptimize /\ [][NextOptimize]_vars

\* Faults: builds and compiles in which a file write is refused
FaultProjects == {p \in ContextProjects : p.manifest.state = "ok"}
InitFaults ==
  /\ templatesDir = TRUE
  /\ templates = seeded(NoFiles)
  /\ standards \in {d \in StandardsDirs : d.best.present}
  /\ compressed = [present |-> FALSE, v |-> NoContext]
  /\ versions = NoVersions
  /\ performance = [present |-> FALSE, v |-> NoVersions]
  /\ clock = 0
  /\ lastOp = Plain("init", "")
  /\ hist = [NoHistory EXCEPT !.inited = TRUE]
  /\ projections = NoProjections /\ sessions = NoSessions /\ inflight = Idle
BuildOfFaults == \E project \in FaultProjects : BuildContext(project)
BuildFailing ==
  \E project \in FaultProjects : \E i \in DOMAIN BuildWrites :
    BuildContextFailing(project, BuildWrites[i])
CompileOfFaults ==
  hist.genOk < MaxCompile /\ \E ticket \in ContextTickets : generatePrompt(ticket)
CompileFailing == \E ticket \in ContextTickets : generatePromptFailing(ticket)
NextFaults ==
  \/ BuildOfFaults
  \/ BuildFailing
  \/ GetCompressedContext
  \/ CompileOfFaults
  \/ CompileFailing
SpecFaults == InitFaults /\ [][NextFaults]_vars

\* Race: a compile whose awaits let builds of other trees run in between
RaceProjects == {p \in Projects : p.files # <<>>}
InitRace ==
  /\ templatesDir = TRUE
  /\ templates = seeded(NoFiles)
  /\ standards \in StandardsDirs
  /\ compressed \in {[present |-> FALSE, v |-> NoContext]}
                      \cup {Some(buildContext(p, 0)) : p \in RaceProjects}
  /\ versions = NoVersions
  /\ performance = [present |-> FALSE, v |-> NoVersions]
  /\ clock = 0
  /\ lastOp = Plain("init", "")
  /\ hist = [NoHistory EXCEPT !.inited = TRUE]
  /\ projections = IF compressed.present
                   THEN [patterns |-> Some(savePatternsToMarkdown(compressed.v.patterns)),
                         decisions |-> Some(saveDecisionsToMarkdown(compressed.v.decisions))]
                   ELSE NoProjections
  /\ sessions = NoSessions /\ inflight = Idle
RaceTickets == {t \in Tickets : t.ticket_id \in {"T-1", "T-2"}}
CompileStart ==
  hist.genOk < MaxCompile /\ \E ticket \in RaceTickets : generatePromptStart(ticket)
BuildOfRace == \E project \in RaceProjects : BuildContext(project)
NextRace ==
  \/ CompileStart
  \/ generatePromptSelect
  \/ generatePromptSearch
  \/ generatePromptFinish
  \/ BuildOfRace
SpecRace == InitRace /\ [][NextRace]_vars

\* Overlap: outcome reports of two callers whose awaits interleave
OverlapVersions ==
  LET context == buildContext(CHOOSE p \in Projects :
                                p.files = <<>> /\ p.manifest.state = "absent", 0)
      std == loadStandards(CHOOSE d \in StandardsDirs : d.best.present)
      store == seeded(NoFiles)
      t1 == CHOOSE t \in Tickets : t.ticket_id = "T-1"
      t2 == CHOOSE t \in Tickets : t.ticket_id = "T-2"
  IN savePromptVersion(
       savePromptVersion(NoVersions, "bug-fix",
                         fillTemplate(store["bug-fix"].v, t1, context, NoResult, std),
                         t1, 0),
       "feature-implementation",
       fillTemplate(store["feature-implementation"].v, t2, context, NoResult, std),
       t2, 0)
InitOverlap ==
  /\ templatesDir = TRUE
  /\ templates = seeded(NoFiles)
  /\ standards \in {d \in StandardsDirs : d.best.present}
  /\ compressed = [present |-> FALSE, v |-> NoContext]
  /\ versions = OverlapVersions
  /\ performance = [present |-> FALSE, v |-> NoVersions]
  /\ clock = 0
  /\ lastOp = Plain("init", "")
  /\ hist = [NoHistory EXCEPT !.inited = TRUE, !.genOk = 2]
  /\ projections = NoProjections /\ sessions = NoSessions /\ inflight = Idle
\* the calls that have started: completed or suspended
started ==
  hist.rec + Cardinality({c \in Callers : inflight.records[c].pc # "idle"})
RecordStart ==
  /\ started < MaxRec
  /\ \E c \in Callers : \E vid \in DOMAIN versions \cup {<<"refactor", 0>>} :
     \E r \in Reports : recordPromptOutcomeStart(c, vid, r[1], r[2])
RecordRead == \E c \in Callers : updateTemplatePerformanceRead(c)
RecordWrite == \E c \in Callers : updateTemplatePerformanceWrite(c)
NextOverlap ==
  \/ RecordStart
  \/ RecordRead
  \/ RecordWrite
SpecOverlap == InitOverlap /\ [][NextOverlap]_vars

\* Sessions: SessionManager calls at several clock values, on a sessions
\* directory that holds one handoff of an earlier session
Handoffs ==
  [x \in {"session-0-2024-01-15"} |->
     [sessionId |-> 0, timestamp |-> 0,
      summary |-> "Working on: Add search. Duration: 1h.",
      currentState |-> "Current files: src/search.ts, src/index.ts. ",
      nextActions |-> <<"Add tests for recent changes">>,
      relevantFiles |-> <<"src/search.ts", "src/index.ts">>,
      contextMap |-> "# Session Context Map",
      troubleshootingNotes |-> <<>>, aiPromptHistory |-> <<>>]]
HandoffIds == DOMAIN Handoffs \cup {"session-9-2024-01-01"}
InitSession ==
  /\ templatesDir = FALSE
  /\ templates = NoFiles
  /\ standards \in {d \in StandardsDirs : d.best.present}
  /\ compressed = [present |-> FALSE, v |-> NoContext]
  /\ versions = NoVersions
  /\ performance = [present |-> FALSE, v |-> NoVersions]
  /\ clock = 0
  /\ lastOp = Plain("init", "")
  /\ hist = NoHistory
  /\ projections = NoProjections
  /\ sessions = [NoSessions EXCEPT !.handoffs = Handoffs]
  /\ inflight = Idle
\* the calls made are counted up to a bound
MayCall == hist.sessionCalls < MaxSessionCalls
InitializeSession ==
  MayCall /\ \E task \in {"", "Add search"} : initializeSession("T-2", task)
LogDecision == MayCall /\ logDecision("Use Fuse", "fuzzy search")
LogBlocker == MayCall /\ logBlocker("API down", "dependency", "high")
ResolveBlocker ==
  MayCall /\ \E id \in (0..MaxClock) \X {1} : resolveBlocker(id, "mocked")
LogProgress ==
  MayCall /\ \E files \in {<<>>, <<"src/search.ts", "src/search.ts">>} :
               logProgress("Search done", "index built", files, "partial")
LogAIInteraction == MayCall /\ logAIInteraction("prompt", "response", "success", "")
ResumeFromHandoff == MayCall /\ \E h \in HandoffIds : resumeFromHandoff(h)
CompleteSession == MayCall /\ \E summary \in {"", "Done"} : completeSession(summary)
NextSession ==
  \/ Tick
  \/ InitializeSession
  \/ LogDecision
  \/ LogBlocker
  \/ ResolveBlocker
  \/ LogProgress
  \/ LogAIInteraction
  \/ ResumeFromHandoff
  \/ CompleteSession
  \/ GetCurrentSession
SpecSession == InitSession /\ [][NextSession]_vars

\* Selection: template stores with seed files missing or overridden, with
\* and without a snapshot, after different outcome histories
DocsOverride ==
  [id |-> "feature-implementation", name |-> "Release Notes",
   category |-> "docs", template |-> <<"# Notes ">> \o PH("FEATURE_NAME")]
\* what a file of the templates directory may hold: the seed written by an
\* earlier initializePrompts, or a file the user stored under that name
StoredTemplates(file) ==
  {[present |-> FALSE, v |-> NoTemplate]}
    \cup (IF file \in {SeedIds[i] : i \in DOMAIN SeedIds}
          THEN {seeded(NoFiles)[file]} ELSE {})
    \cup (IF file = "feature-implementation"
          THEN {Some(t) : t \in UserTemplates(file) \cup {DocsOverride}} ELSE {})
SelectStores ==
  {store \in [TemplateFiles -> UNION {StoredTemplates(f) : f \in TemplateFiles}] :
     \A f \in TemplateFiles : store[f] \in StoredTemplates(f)}
\* performance.json after no report, and after two failures of bug-fix
SelectHistories ==
  LET none == [present |-> FALSE, v |-> NoVersions]
  IN {none,
      updateTemplatePerformance(
        updateTemplatePerformance(none, "bug-fix", "failure", 0),
        "bug-fix", "failure", 0)}
SelectTickets == {t \in Tickets : t.ticket_id \in {"T-1", "T-2", "T-4", "T-6"}}
SelectProject == CHOOSE p \in Projects : Len(p.files) = 1
InitSelect ==
  /\ templatesDir \in BOOLEAN
  /\ templates \in SelectStores
  /\ ~templatesDir => templates = NoFiles
  /\ standards \in {d \in StandardsDirs : d.best.present}
  /\ compressed \in {[present |-> FALSE, v |-> NoContext],
                     Some(buildContext(SelectProject, 0))}
  /\ versions = NoVersions
  /\ performance \in SelectHistories
  /\ clock = 0
  /\ lastOp = Plain("init", "")
  /\ hist = [NoHistory EXCEPT
               !.calls = [t \in TemplateIds |->
                            IF t \in DOMAIN performance.v
                            THEN [n |-> performance.v[t].totalUses,
                                  success |-> performance.v[t].successCount,
                                  failure |-> performance.v[t].failureCount]
                            ELSE NoCalls]]
  /\ projections = IF compressed.present
                   THEN [patterns |-> Some(savePatternsToMarkdown(compressed.v.patterns)),
                         decisions |-> Some(saveDecisionsToMarkdown(compressed.v.decisions))]
                   ELSE NoProjections
  /\ sessions = NoSessions /\ inflight = Idle
CompileOfSelect ==
  hist.genOk < MaxCompile /\ \E ticket \in SelectTickets : generatePrompt(ticket)
NextSelect ==
  \/ initializePrompts
  \/ CompileOfSelect
SpecSelect == InitSelect /\ [][NextSelect]_vars

\* ------------------------------------------------------------------ claims
SeedOf(f) == getDefaultTemplates[CHOOSE i \in DOMAIN getDefaultTemplates :
                                   getDefaultTemplates[i].id = f]
SeedFiles == {getDefaultTemplates[i].id : i \in DOMAIN getDefaultTemplates}
\* a step of the call op (Tick changes the clock, calls do not)
StepOf(op) == lastOp'.op = op /\ clock' = clock /\ vars' # vars

\* C1: initializePrompts leaves every template file that exists before the
\* call byte-identical, writes a seed only under a seed id that has no file,
\* and a second call changes nothing.
C1_OverridePreserving ==
  [][StepOf("initializePrompts") =>
       /\ \A f \in TemplateFiles : templates[f].present => templates'[f] = templates[f]
       /\ \A f \in TemplateFiles :
            templates'[f] # templates[f] =>
              f \in SeedFiles /\ ~templates[f].present /\ templates'[f] = Some(SeedOf(f))
       /\ \A f \in SeedFiles : templates'[f].present
       /\ hist.inited => templates' = templates /\ templatesDir' = templatesDir]_vars

C1_Witness ==
  /\ lastOp.op = "initializePrompts"
  /\ lastOp.mark = "again"
  /\ templates["feature-implementation"].v.name = "Custom Feature Template"
  /\ templates["bug-fix"].v = SeedOf("bug-fix")

\* C2: generatePrompt with no persisted snapshot raises 'No context found' and
\* changes no persisted state: versions, templates and performance stay.
C2_MissingContext ==
  [][StepOf("generatePrompt") /\ ~compressed.present =>
       /\ lastOp'.err = "No context found"
       /\ lastOp'.ret = <<>>
       /\ UNCHANGED <<templatesDir, templates, standards, compressed, versions,
                      performance>>]_vars

C2_Witness ==
  /\ lastOp.op = "generatePrompt"
  /\ lastOp.err = "No context found"
  /\ \A f \in SeedFiles : templates[f].present
  /\ versions = NoVersions

\* the template the selection rule of the claim names for a ticket
claimedTemplate(ticket) ==
  LET title == toLowerCase(ticket.title)
      outcome == toLowerCase(ticket.outcome)
  IN IF includes(title, <<"f","i","x">>) \/ includes(title, <<"b","u","g">>)
     THEN "bug-fix"
     ELSE IF includes(title, <<"r","e","f","a","c","t","o","r">>)
             \/ includes(outcome, <<"i","m","p","r","o","v","e">>)
     THEN "refactor"
     ELSE "feature-implementation"

TicketOf(id) == CHOOSE t \in Tickets : t.ticket_id = id
\* the store holds the three seed templates and nothing else
SeedStore ==
  \A f \in TemplateFiles :
    IF f \in SeedFiles THEN templates[f] = Some(SeedOf(f)) ELSE ~templates[f].present

\* C3: with the three seed templates in the store, generatePrompt selects by
\* first match, case-insensitively: "fix"/"bug" in the title -> bug-fix, else
\* "refactor" in the title or "improve" in the outcome -> refactor, else
\* feature-implementation.
C3_SelectionCaseInsensitive ==
  (lastOp.op = "generatePrompt" /\ lastOp.err = "" /\ SeedStore)
    => lastOp.vid[1] = claimedTemplate(TicketOf(lastOp.ticket))

\* C4: no prompt returned by generatePrompt or stored in a version record
\* holds a remaining {{...}} token, for any ticket and any template of the store.
C4_PlaceholderTotality ==
  /\ \A v \in DOMAIN versions : ~HasPlaceholder(versions[v].content)
  /\ (lastOp.op = "generatePrompt" /\ lastOp.err = "") => ~HasPlaceholder(lastOp.ret)

\* the TemplatePerformance map, empty while performance.json does not exist
PerfMap == performance.v

\* C5: after N recordPromptOutcome calls on existing versions of a template,
\* its entry has totalUses = N, successCount = the number of success reports,
\* failureCount = the number of failure reports (partial counted in neither)
\* and successCount + failureCount <= N.
C5_FeedbackMonotonicity ==
  \A t \in TemplateIds :
    hist.calls[t].n > 0 =>
      /\ t \in DOMAIN PerfMap
      /\ PerfMap[t].totalUses = hist.calls[t].n
      /\ PerfMap[t].successCount = hist.calls[t].success
      /\ PerfMap[t].failureCount = hist.calls[t].failure
      /\ PerfMap[t].successCount + PerfMap[t].failureCount <= hist.calls[t].n

C5_Witness ==
  \E t \in TemplateIds :
    /\ hist.calls[t].n >= 2
    /\ hist.calls[t].success >= 1
    /\ hist.calls[t].success + hist.calls[t].failure < hist.calls[t].n
    /\ PerfMap[t].totalUses = hist.calls[t].n

\* C6: every successful generatePrompt persists exactly one new PromptVersion
\* under an id no existing version has, with the selected template's id, the
\* returned text, the ticket id, outcome "success" and empty feedback, and
\* leaves the earlier records alone; after k successful calls there are k records.
C6_OneNewVersionPerCompile ==
  [][StepOf("generatePrompt") /\ lastOp'.err = "" =>
       LET id == lastOp'.vid
       IN /\ id \notin DOMAIN versions
          /\ DOMAIN versions' = DOMAIN versions \cup {id}
          /\ versions'[id].id = id
          /\ versions'[id].templateId = id[1]
          /\ versions'[id].content = lastOp'.ret
          /\ versions'[id].metadata.usedFor = lastOp'.ticket
          /\ versions'[id].metadata.outcome = "success"
          /\ versions'[id].metadata.feedback = ""
          /\ \A x \in DOMAIN versions : versions'[x] = versions[x]
          /\ Cardinality(DOMAIN versions') = hist'.genOk]_vars

\* C7 (as claimed): once an outcome has been recorded for a version, a later
\* recordPromptOutcome for the same id changes neither the version record nor
\* TemplatePerformance.
C7_MutatedExactlyOnce ==
  [][StepOf("recordPromptOutcome") /\ lastOp'.vid \in hist.recorded =>
       versions' = versions /\ performance' = performance]_vars

\* C7 (amended): every recordPromptOutcome for an existing version, a repeated
\* one included, overwrites the version's outcome and feedback with the report
\* and adds one use to the TemplatePerformance entry of its template.
C7_EveryCallCounts ==
  [][StepOf("recordPromptOutcome") /\ lastOp'.vid \in hist.recorded =>
       LET id == lastOp'.vid
           t == versions[id].templateId
       IN /\ lastOp'.outcome \in {r[1] : r \in Reports}
          /\ versions'[id].metadata.outcome = lastOp'.outcome
          /\ versions'[id].metadata.feedback = lastOp'.feedback
          /\ t \in DOMAIN PerfMap
          /\ PerfMap'[t].totalUses = PerfMap[t].totalUses + 1]_vars

C7_Witness ==
  /\ lastOp.op = "recordPromptOutcome"
  /\ lastOp.mark = "again"
  /\ \E id \in hist.recorded :
       /\ versions[id].metadata.outcome = "failure"
       /\ PerfMap[versions[id].templateId].totalUses >= 2

\* C8: recordPromptOutcome(v, o, f) on an existing version sets its outcome
\* and feedback, keeps its other fields, updates the TemplatePerformance entry
\* of v's template only, and leaves the other versions, the other entries, the
\* template files and the snapshot unchanged.
C8_RecordFrame ==
  [][StepOf("recordPromptOutcome") /\ lastOp'.vid \in DOMAIN versions =>
       LET id == lastOp'.vid
           t == versions[id].templateId
       IN /\ lastOp'.outcome \in {r[1] : r \in Reports}
          /\ versions'[id] = [versions[id] EXCEPT
                                !.metadata.outcome = lastOp'.outcome,
                                !.metadata.feedback = lastOp'.feedback]
          /\ DOMAIN versions' = DOMAIN versions
          /\ \A x \in DOMAIN versions \ {id} : versions'[x] = versions[x]
          /\ performance'.present
          /\ DOMAIN PerfMap' = DOMAIN PerfMap \cup {t}
          /\ \A u \in DOMAIN PerfMap \ {t} : PerfMap'[u] = PerfMap[u]
          /\ PerfMap'[t].totalUses =
               (IF t \in DOMAIN PerfMap THEN PerfMap[t].totalUses ELSE 0) + 1
          /\ UNCHANGED <<templatesDir, templates, standards, compressed>>]_vars

C8_Witness ==
  /\ lastOp.op = "recordPromptOutcome"
  /\ lastOp.mark \in {"new", "again"}
  /\ Cardinality(DOMAIN versions) >= 2
  /\ Cardinality(DOMAIN PerfMap) >= 2
  /\ compressed.present

PerfEntryOk(t) ==
  LET e == PerfMap[t]
  IN /\ e.totalUses >= 1
     /\ e.successCount >= 0 /\ e.failureCount >= 0
     /\ e.successCount + e.failureCount <= e.totalUses
     /\ e.averageRating.den > 0
     /\ e.averageRating.num * e.totalUses = e.successCount * e.averageRating.den
     /\ 0 <= e.averageRating.num /\ e.averageRating.num <= e.averageRating.den
     /\ hist.calls[t].n >= 1

C10_UnknownVersionNoOp ==
  [][lastOp'.op = "recordPromptOutcome" /\ lastOp' # lastOp
       /\ lastOp'.vid \notin DOMAIN versions =>
         /\ lastOp'.err = ""
         /\ UNCHANGED <<templatesDir, templates, standards, compressed, versions,
                        performance>>
         /\ hist'.calls = hist.calls]_vars

C10_Witness ==
  /\ lastOp.op = "recordPromptOutcome"
  /\ lastOp.err = ""
  /\ lastOp.mark = "unknown"
  /\ lastOp.vid \notin DOMAIN versions
  /\ versions # NoVersions
  /\ performance.present

C12_CompileFrame ==
  [][StepOf("generatePrompt") =>
       /\ UNCHANGED <<templatesDir, templates, standards, compressed, performance>>
       /\ lastOp'.err # "" => versions' = versions
       /\ lastOp'.err = "" =>
            /\ DOMAIN versions' = DOMAIN versions \cup {lastOp'.vid}
            /\ \A x \in DOMAIN versions \ {lastOp'.vid} : versions'[x] = versions[x]]_vars

C12_Witness ==
  /\ lastOp.op = "generatePrompt"
  /\ lastOp.err = ""
  /\ lastOp.vid \in DOMAIN versions
  /\ compressed.present /\ compressed.v.patterns # <<>>
  /\ \A f \in SeedFiles : templates[f].present

\* C13: getCompressedContext returns absent before any build and otherwise the
\* context the most recent completed buildContext returned, without writing;
\* each build writes a snapshot made from its own project only.
C13_SnapshotIsLastBuild ==
  /\ [](getCompressedContext(compressed) =
          IF hist.built.present THEN Some(hist.built.ret)
          ELSE [present |-> FALSE, v |-> NoContext])
  /\ [][StepOf("getCompressedContext") =>
          /\ lastOp'.got = (IF hist.built.present THEN Some(hist.built.ret)
                            ELSE [present |-> FALSE, v |-> NoContext])
          /\ UNCHANGED <<templatesDir, templates, standards, compressed, versions,
                         performance>>]_vars
  /\ [][StepOf("buildContext") /\ lastOp'.err = "" =>
          /\ compressed'.present
          /\ compressed'.v = hist'.built.ret
          /\ \A i \in DOMAIN compressed'.v.patterns :
               \A k \in DOMAIN compressed'.v.patterns[i].files :
                 \E j \in DOMAIN hist'.built.project.files :
                   hist'.built.project.files[j].path = compressed'.v.patterns[i].files[k]
          /\ Len(compressed'.v.decisions) =
               Len(extractDecisions(hist'.built.project, clock))]_vars

C13_Witness ==
  /\ lastOp.op = "buildContext"
  /\ lastOp.mark = "other"
  /\ getCompressedContext(compressed).present
  /\ getCompressedContext(compressed).v = hist.built.ret
  /\ hist.built.project.files = <<FileA, FileC>>

\* the pattern ids of a context with their frequencies
Frequencies(context) ==
  {<<context.patterns[i].id, context.patterns[i].frequency>> :
     i \in DOMAIN context.patterns}

\* C14: a buildContext over the project of the build before yields the same
\* pattern ids with the same frequencies and the same fingerprint, whatever
\* ran between the two builds.
C14_BuildIdempotence ==
  [][StepOf("buildContext") /\ lastOp'.err = "" /\ hist.built.present
       /\ hist'.built.project = hist.built.project =>
         /\ Frequencies(compressed'.v) = Frequencies(hist.built.ret)
         /\ compressed'.v.codebaseFingerprint = hist.built.ret.codebaseFingerprint]_vars

C14_Witness ==
  /\ lastOp.op = "buildContext"
  /\ lastOp.mark = "same"
  /\ compressed.v.lastUpdated >= 1
  /\ compressed.v.patterns # <<>>
  /\ hist.inited
  /\ performance.present

\* the pattern id the claim gives a declaration: (paramCount, sync|async),
\* (methodCount), (relative|package, specifierCount)
SignatureOf(d) ==
  IF d.kind = "function"
    THEN <<"function-", Str(d.n), "-params-", IF d.flag THEN "async" ELSE "sync">>
  ELSE IF d.kind = "class" THEN <<"class-", Str(d.n), "-methods">>
  ELSE <<"import-", IF d.flag THEN "relative" ELSE "package", "-", Str(d.n)>>

\* the declarations of the files of a project that parse, by file and position
DeclSites(project) ==
  UNION {{<<i, j>> : j \in DOMAIN project.files[i].decls} :
           i \in {k \in DOMAIN project.files : project.files[k].parses}}
ParsedDecls(project) ==
  {project.files[site[1]].decls[site[2]] : site \in DeclSites(project)}
CountOf(project, id) ==
  Cardinality({site \in DeclSites(project) :
                 SignatureOf(project.files[site[1]].decls[site[2]]) = id})

\* C15: in the context of a build, the frequency of each signature is the
\* number of function, class and import declarations of that shape in the
\* files that parse, named or not.
C15_FrequenciesCountDeclarations ==
  hist.built.present =>
    LET project == hist.built.project
        patterns == hist.built.ret.patterns
    IN /\ \A d \in ParsedDecls(project) :
            \E k \in DOMAIN patterns :
              /\ patterns[k].id = SignatureOf(d)
              /\ patterns[k].frequency = CountOf(project, SignatureOf(d))
       /\ \A k \in DOMAIN patterns :
            \E d \in ParsedDecls(project) : SignatureOf(d) = patterns[k].id

\* a project without its files that do not parse
Parsed(project) ==
  [project EXCEPT !.files = SelectSeq(@, LAMBDA f : f.parses)]
\* the ids, frequencies and file lists of a list of patterns
Shape(patterns) ==
  {[id |-> patterns[i].id, frequency |-> patterns[i].frequency,
    files |-> patterns[i].files] : i \in DOMAIN patterns}

\* C16: a build over a tree holding a file that does not parse completes and
\* persists a snapshot whose pattern ids, frequencies and file lists are those
\* of a build over the tree without that file.
C16_ParseFailureSkipped ==
  [][\A project \in ContextProjects :
       /\ \E i \in DOMAIN project.files : ~project.files[i].parses
       /\ project.manifest.state # "malformed"
       /\ BuildContext(project)
       => /\ lastOp'.err = ""
          /\ compressed'.present
          /\ Shape(compressed'.v.patterns)
               = Shape(buildContext(Parsed(project), clock).patterns)
          /\ \A i \in DOMAIN compressed'.v.patterns :
               \A k \in DOMAIN compressed'.v.patterns[i].files :
                 compressed'.v.patterns[i].files[k] # FileB.path]_vars

C16_Witness ==
  /\ lastOp.op = "buildContext"
  /\ lastOp.err = ""
  /\ \E i \in DOMAIN hist.built.project.files : ~hist.built.project.files[i].parses
  /\ compressed.present
  /\ \E i \in DOMAIN compressed.v.patterns :
       /\ compressed.v.patterns[i].id = SignatureOf(FileB.decls[1])
       /\ compressed.v.patterns[i].frequency = 3

\* C17: whatever extraction meets (a source file that does not parse, a
\* malformed project manifest), buildContext completes and persists a snapshot.
C17_BuildNeverRaises ==
  [][StepOf("buildContext") =>
       /\ lastOp'.err = ""
       /\ compressed'.present
       /\ hist'.built.present]_vars

\* the orders in which the files of a list can be processed
Orders(files) ==
  {[i \in DOMAIN files |-> files[f[i]]] :
     f \in {g \in [DOMAIN files -> DOMAIN files] :
              \A i, j \in DOMAIN files : i # j => g[i] # g[j]}}

\* C18: processing the files of a build in any other order yields the same
\* pattern ids with the same frequencies, names, descriptions and examples.
C18_OrderIndependent ==
  hist.built.present =>
    LET now == hist.built.ret.lastUpdated
        patterns == hist.built.ret.patterns
    IN \A files \in Orders(hist.built.project.files) :
         LET other == extractPatterns(<<>>, files, now)
         IN /\ Len(other) = Len(patterns)
            /\ \A i \in DOMAIN patterns :
                 \E j \in DOMAIN other :
                   /\ other[j].id = patterns[i].id
                   /\ other[j].frequency = patterns[i].frequency
                   /\ other[j].name = patterns[i].name
                   /\ other[j].description = patterns[i].description
                   /\ other[j].example = patterns[i].example

\* C20: searchSimilarContext returns without raising and writes nothing; with
\* no snapshot both lists are empty, with one every item returned is an item
\* of the snapshot.
C20_SearchTotal ==
  [][StepOf("searchSimilarContext") =>
       /\ lastOp'.err = ""
       /\ UNCHANGED <<templatesDir, templates, standards, compressed, versions,
                      performance>>
       /\ ~compressed.present => lastOp'.found = NoResult
       /\ \A i \in DOMAIN lastOp'.found.patterns :
            \E j \in DOMAIN compressed.v.patterns :
              compressed.v.patterns[j] = lastOp'.found.patterns[i]
       /\ \A i \in DOMAIN lastOp'.found.decisions :
            \E j \in DOMAIN compressed.v.decisions :
              compressed.v.decisions[j] = lastOp'.found.decisions[i]]_vars

C20_Witness ==
  /\ lastOp.op = "searchSimilarContext"
  /\ lastOp.err = ""
  /\ lastOp.mark = "none"
  /\ ~compressed.present
  /\ lastOp.found = NoResult

\* the dependency names and the devDependency names a manifest declares
NameSets(manifest) ==
  <<{manifest.deps[i] : i \in DOMAIN manifest.deps},
    {manifest.devDeps[i] : i \in DOMAIN manifest.devDeps}>>
PlainNames(manifest) ==
  \A name \in NameSets(manifest)[1] \cup NameSets(manifest)[2] :
    NameChars(name) = <<name>>

categoryOf(ticket) ==
  IF matchesBugfix(ticket) THEN "bugfix"
  ELSE IF matchesRefactor(ticket) THEN "refactor" ELSE "feature"
\* the store holds a template of the category
holds(store, cat) ==
  \E f \in TemplateFiles : store[f].present /\ store[f].v.category = cat

\* C21: whenever the ticket matches the bug-fix or the refactor test but the
\* store holds no template of that category, generatePrompt selects the
\* feature-category template and not a template of any other category.
C21_FallbackIsFeature ==
  [][(StepOf("generatePrompt") /\ lastOp'.err = ""
      /\ categoryOf(TicketOf(lastOp'.ticket)) # "feature"
      /\ ~holds(templates, categoryOf(TicketOf(lastOp'.ticket))))
     => templates[lastOp'.vid[1]].v.category = "feature"]_vars

\* C22: generatePrompt raises 'No prompt template found' exactly when a
\* snapshot exists and the store holds neither a template of the category the
\* ticket matches nor a feature-category template; when it raises, no version
\* record is persisted and nothing else changes.
C22_MissingTemplateExactly ==
  [][StepOf("generatePrompt")
     => /\ (lastOp'.err = "No prompt template found")
            <=> (/\ compressed.present
                 /\ ~holds(templates, categoryOf(TicketOf(lastOp'.ticket)))
                 /\ ~holds(templates, "feature"))
        /\ lastOp'.err = "No prompt template found"
             => UNCHANGED <<templatesDir, templates, standards, compressed, versions,
                            performance, clock, hist, projections, sessions, inflight>>]_vars

\* the template generatePrompt selects for a ticket when the template files
\* are store and performance.json holds history
selectedWith(store, history, ticket) == selectable(store, ticket)

\* C23: the selected template depends on the recorded TemplatePerformance:
\* there are template files, a ticket and two outcome histories after which
\* generatePrompt selects different templates for that ticket.
C23_SelectionUsesOutcomes ==
  \E store \in SelectStores : \E ticket \in SelectTickets :
    \E h1 \in SelectHistories \cup {performance} : \E h2 \in SelectHistories :
      selectedWith(store, h1, ticket) # selectedWith(store, h2, ticket)

C24_NoRollback ==
  /\ [][(StepOf("buildContext") /\ lastOp'.err = "EIO")
        => /\ lastOp'.mark = "compressed.json" => UNCHANGED <<compressed, projections>>
           /\ lastOp'.mark = "patterns.md"
                => compressed' = lastOp'.got /\ UNCHANGED projections
           /\ lastOp'.mark = "decisions.md"
                => /\ compressed' = lastOp'.got
                   /\ projections'.patterns =
                        Some(savePatternsToMarkdown(lastOp'.got.v.patterns))
                   /\ projections'.decisions = projections.decisions]_vars
  /\ [][(lastOp.op = "buildContext" /\ lastOp.err = "EIO"
         /\ lastOp.mark # "compressed.json" /\ StepOf("getCompressedContext"))
        => lastOp'.got = lastOp.got]_vars
  /\ [][(StepOf("generatePrompt") /\ lastOp'.err = "EIO")
        => lastOp'.ret = <<>> /\ UNCHANGED versions]_vars

\* a build that failed writing patterns.md over an older build: the snapshot
\* is the new one, the projection still shows the older patterns
C24_Witness ==
  /\ lastOp.op = "buildContext" /\ lastOp.err = "EIO" /\ lastOp.mark = "patterns.md"
  /\ compressed = lastOp.got
  /\ projections.patterns.present
  /\ projections.patterns.v # savePatternsToMarkdown(compressed.v.patterns)


\* C25: every prompt generatePrompt returns is derived from a single context
\* snapshot: its summary and pitfalls and its patterns and decisions come from
\* the same build, also when a buildContext call replaces the snapshot between
\* the start and the end of the generatePrompt call.
C25_SingleSnapshot ==
  [][(StepOf("generatePrompt") /\ lastOp'.err = "")
     => \E project \in RaceProjects : \E f \in TemplateFiles :
          LET context == buildContext(project, clock)
          IN \E relevant \in searchSimilarContext(context) :
               lastOp'.ret = fillTemplate(templates[f].v, TicketOf(lastOp'.ticket),
                                          context, relevant,
                                          loadStandards(standards))]_vars


\* C26: no recorded outcome is lost when recordPromptOutcome calls overlap:
\* once the calls have completed, the totalUses over all templates count every
\* completed call for an existing version and each call's outcome counter
\* increment is present.
C26_NoLostOutcome ==
  (\A c \in Callers : inflight.records[c].pc = "idle")
    => \A t \in TemplateIds :
         IF performance.present /\ t \in DOMAIN performance.v
         THEN /\ performance.v[t].totalUses = hist.calls[t].n
              /\ performance.v[t].successCount = hist.calls[t].success
              /\ performance.v[t].failureCount = hist.calls[t].failure
         ELSE hist.calls[t] = NoCalls


\* the declarations traverse() meets in a build, file by file, and the
\* registry after the first k of them
RECURSIVE declSteps(_)
declSteps(files) ==
  IF files = <<>> THEN <<>>
  ELSE LET f == Head(files)
       IN (IF f.parses THEN [i \in DOMAIN f.decls |-> [file |-> f.path, d |-> f.decls[i]]]
           ELSE <<>>) \o declSteps(Tail(files))
RECURSIVE registryAt(_, _, _)
registryAt(steps, k, now) ==
  IF k = 0 THEN <<>>
  ELSE traverse(registryAt(steps, k - 1, now), <<steps[k].d>>, steps[k].file, now)
IsPrefix(a, b) == Len(a) <= Len(b) /\ \A i \in DOMAIN a : a[i] = b[i]
RegistryOk(ps) ==
  /\ \A i, j \in DOMAIN ps : ps[i].id = ps[j].id => i = j
  /\ \A i \in DOMAIN ps : ps[i].frequency >= 1 /\ ps[i].frequency = Len(ps[i].files)
RegistryGrows(ps, qs) ==
  \A i \in DOMAIN ps : \E j \in DOMAIN qs :
    /\ qs[j].id = ps[i].id
    /\ qs[j].frequency >= ps[i].frequency
    /\ IsPrefix(ps[i].files, qs[j].files)

\* C28: at every step of a build and in every persisted snapshot the pattern
\* registry holds at most one entry per signature id, and each entry has a
\* frequency >= 1 equal to the length of its file list (duplicates counted);
\* within a build a frequency never decreases and a file list is only
\* appended to.
C28_RegistryInvariant ==
  /\ compressed.present => RegistryOk(compressed.v.patterns)
  /\ hist.built.present =>
       LET steps == declSteps(hist.built.project.files)
           now == hist.built.ret.lastUpdated
       IN /\ sortByFrequency(registryAt(steps, Len(steps), now)) = hist.built.ret.patterns
          /\ \A k \in 0..Len(steps) : RegistryOk(registryAt(steps, k, now))
          /\ \A k \in 1..Len(steps) :
               RegistryGrows(registryAt(steps, k - 1, now), registryAt(steps, k, now))

\* a persisted snapshot with a pattern met twice in one file
C28_Witness ==
  /\ compressed.present /\ hist.built.present
  /\ \E i \in DOMAIN compressed.v.patterns :
       LET files == compressed.v.patterns[i].files
       IN compressed.v.patterns[i].frequency >= 2
          /\ \E a, b \in DOMAIN files : a # b /\ files[a] = files[b]


\* C29: after resumeFromHandoff(h) succeeds for an existing handoff h, the
\* persisted current session agrees with the session object returned: its
\* currentTask is the handoff's summary, its workingFiles are the handoff's
\* relevant files, and its progress holds the 'Session Resumed' entry.
C29_ResumedSessionAgrees ==
  [][\A h \in DOMAIN sessions.handoffs :
       (resumeFromHandoff(h) /\ lastOp'.err = "")
         => LET persisted == sessions'.current
                returned == lastOp'.session.v
                handoff == sessions.handoffs[h]
            IN /\ persisted.present
               /\ persisted.v.currentTask = handoff.summary
               /\ persisted.v.workingFiles = handoff.relevantFiles
               /\ \E i \in DOMAIN persisted.v.progress :
                    persisted.v.progress[i].milestone = "Session Resumed"
               /\ returned.currentTask = persisted.v.currentTask
               /\ returned.workingFiles = persisted.v.workingFiles
               /\ returned.progress = persisted.v.progress]_vars

\* C30: after any sequence of SessionManager operations at most one record
\* of the session history has status 'active', and if one has, it is the
\* current session; after completeSession there is no current session and
\* that session's history record has status 'completed'.
C30_OneActiveSession ==
  /\ [](/\ Cardinality({id \in DOMAIN sessions.history :
                          sessions.history[id].status = "active"}) <= 1
        /\ \A id \in DOMAIN sessions.history :
             sessions.history[id].status = "active"
               => sessions.current.present /\ sessions.current.v.id = id)
  /\ [][(StepOf("completeSession") /\ lastOp'.err = "")
        => /\ ~sessions'.current.present
           /\ sessions'.history[sessions.current.v.id].status = "completed"]_vars

====
